---- MODULE Spec2Model ----
(***************************************************************************)
(* Model of `gate city` (internal/city/city.go): the contract loader, the  *)
(* path normalizer, the glob matcher, the four checks and the verdict      *)
(* aggregation of Run; and of RecordCity (package bead), which records a   *)
(* city verdict in the bead ledger.                                        *)
(*                                                                         *)
(* A Go string is a sequence of one-character strings, so that trimming,   *)
(* cleaning, suffix tests and glob matching are computed character by      *)
(* character as the code computes them.                                    *)
(***************************************************************************)
EXTENDS Integers, Sequences, FiniteSets, TLC

VARIABLES
    nIn, nOp, nOut,                 \* normalizePolisPath / normalizeHookPath applied to one input
    lRaw, lOut,                     \* loadConfig applied to one parsed city.toml
    bFiles, bOracle, bOut,          \* checkBoundary applied to polis_files under a git oracle
    sFiles, sInstallAt, sFs, sOut,  \* checkSplit applied to polis_files and an install location
    rIn,                            \* Run: repository, city.toml, options, git oracle, install tree
    rPc,                            \* Run: the statement Run has reached
    rCfg,                           \* Run: the Config loadConfig returned
    rWorld,                         \* Run: what the standalone check met (temp dir, clone, command)
    rResults,                       \* Run: the CheckResults appended so far
    rEffects,                       \* Run: the external operations performed so far
    rVerdict,                       \* Run: the Verdict returned
    tIn,                            \* checkStandalone: options and the declared command
    tPc,                            \* checkStandalone: the statement it has reached
    tSys,                           \* checkStandalone: temp dir, processes, contexts and timer
    tOut,                           \* checkStandalone: the result returned
    hCfg, hInstallAt, hFs, hOut,    \* checkHooks applied to a Config and an install location
    eHosts, eEnvs,                  \* isolatedEnv applied to two host environments
    mP, mR, mOut,                   \* matchGlobPattern / synthesizePathFromPattern applied to a pattern
    gEntry, gFs, gOut,              \* one declared entry as the boundary probe and the split check treat it
    vA, vB,                         \* two verdicts returned by two calls of Run
    kLedger, kCall, kRet            \* RecordCity: the bead ledger, the last call and what it returned

normVars     == <<nIn, nOp, nOut>>
loadVars     == <<lRaw, lOut>>
boundaryVars == <<bFiles, bOracle, bOut>>
splitVars    == <<sFiles, sInstallAt, sFs, sOut>>
runVars      == <<rIn, rPc, rCfg, rWorld, rResults, rEffects, rVerdict>>
standaloneVars == <<tIn, tPc, tSys, tOut>>
hookVars     == <<hCfg, hInstallAt, hFs, hOut>>
envVars      == <<eHosts, eEnvs>>
matchVars    == <<mP, mR, mOut>>
kindVars     == <<gEntry, gFs, gOut>>
pairVars     == <<vA, vB>>
recordVars   == <<kLedger, kCall, kRet>>
cityVars     == <<normVars, loadVars, boundaryVars, splitVars, runVars, standaloneVars, hookVars, envVars>>
moreVars     == <<matchVars, kindVars, pairVars, recordVars>>
vars         == <<cityVars, moreVars>>

(***************************************************************************)
(* Bounds                                                                  *)
(***************************************************************************)
MaxLen == 6          \* longest raw path string given to the normalizers
MaxEntries == 2      \* most polis_files entries given to one check
MaxHooks == 1        \* most [[hook]] blocks of one contract
MaxRunEntries == 1   \* most polis_files entries of a contract given to Run

(***************************************************************************)
(* Strings                                                                 *)
(***************************************************************************)
RECURSIVE StringsUpTo(_, _)
StringsUpTo(alphabet, n) ==
    IF n = 0 THEN {<<>>}
    ELSE LET shorter == StringsUpTo(alphabet, n - 1)
         IN  shorter \cup {Append(s, c) : s \in {t \in shorter : Len(t) = n - 1}, c \in alphabet}

WhiteSpace == {" ", "\t"}

\* strings.HasSuffix / strings.HasPrefix / strings.TrimSuffix / strings.TrimPrefix
HasSuffix(s, suf) ==
    /\ Len(s) >= Len(suf)
    /\ SubSeq(s, Len(s) - Len(suf) + 1, Len(s)) = suf

HasPrefix(s, pre) ==
    /\ Len(s) >= Len(pre)
    /\ SubSeq(s, 1, Len(pre)) = pre

TrimSuffix(s, suf) == IF HasSuffix(s, suf) THEN SubSeq(s, 1, Len(s) - Len(suf)) ELSE s

TrimPrefix(s, pre) == IF HasPrefix(s, pre) THEN SubSeq(s, Len(pre) + 1, Len(s)) ELSE s

\* strings.TrimSpace: drop leading and trailing white space
RECURSIVE TrimLeft(_)
TrimLeft(s) == IF s # <<>> /\ Head(s) \in WhiteSpace THEN TrimLeft(Tail(s)) ELSE s

RECURSIVE TrimRight(_)
TrimRight(s) ==
    IF s # <<>> /\ s[Len(s)] \in WhiteSpace THEN TrimRight(SubSeq(s, 1, Len(s) - 1)) ELSE s

TrimSpace(s) == TrimRight(TrimLeft(s))

\* strings.ReplaceAll(p, "\\", "/")
ReplaceBackslash(s) == [i \in 1..Len(s) |-> IF s[i] = "\\" THEN "/" ELSE s[i]]

\* strings.ContainsAny(v, chars)
ContainsAny(s, chars) == \E i \in 1..Len(s) : s[i] \in chars

\* strings.Split(v, "/")
RECURSIVE SplitSlash(_)
SplitSlash(s) ==
    IF \A i \in 1..Len(s) : s[i] # "/" THEN <<s>>
    ELSE LET k == CHOOSE i \in 1..Len(s) : s[i] = "/" /\ \A j \in 1..(i - 1) : s[j] # "/"
         IN  <<SubSeq(s, 1, k - 1)>> \o SplitSlash(SubSeq(s, k + 1, Len(s)))

\* strings.Join(parts, sep)
RECURSIVE JoinStr(_, _)
JoinStr(parts, sep) ==
    IF parts = <<>> THEN <<>>
    ELSE IF Len(parts) = 1 THEN parts[1]
    ELSE parts[1] \o sep \o JoinStr(Tail(parts), sep)

(***************************************************************************)
(* path.IsAbs and path.Clean (Go standard library), as used by the         *)
(* normalizer, the probe synthesis and the glob matcher.                   *)
(***************************************************************************)
IsAbs(p) == Len(p) > 0 /\ p[1] = "/"

\* the backtracking step of Clean for a ".." element: drop the last element of out
RECURSIVE DropLastElem(_, _)
DropLastElem(out, dotdot) ==
    IF Len(out) > dotdot /\ out[Len(out)] # "/"
    THEN DropLastElem(SubSeq(out, 1, Len(out) - 1), dotdot)
    ELSE out

\* index of the first "/" at or after r, or Len(p)+1
RECURSIVE ElemEnd(_, _)
ElemEnd(p, r) == IF r > Len(p) \/ p[r] = "/" THEN r ELSE ElemEnd(p, r + 1)

RECURSIVE CleanLoop(_, _, _, _, _)
CleanLoop(p, r, out, dotdot, rooted) ==
    LET n == Len(p) IN
    IF r > n THEN out
    ELSE IF p[r] = "/" THEN CleanLoop(p, r + 1, out, dotdot, rooted)
    ELSE IF p[r] = "." /\ (r = n \/ p[r + 1] = "/") THEN CleanLoop(p, r + 1, out, dotdot, rooted)
    ELSE IF p[r] = "." /\ p[r + 1] = "." /\ (r + 1 = n \/ p[r + 2] = "/") THEN
        IF Len(out) > dotdot THEN
            LET w == Len(out) - 1
            IN  CleanLoop(p, r + 2, DropLastElem(SubSeq(out, 1, w), dotdot), dotdot, rooted)
        ELSE IF ~rooted THEN
            LET o2 == (IF Len(out) > 0 THEN Append(out, "/") ELSE out) \o <<".", ".">>
            IN  CleanLoop(p, r + 2, o2, Len(o2), rooted)
        ELSE CleanLoop(p, r + 2, out, dotdot, rooted)
    ELSE
        LET o1 == IF (rooted /\ Len(out) # 1) \/ (~rooted /\ Len(out) # 0)
                  THEN Append(out, "/") ELSE out
            e  == ElemEnd(p, r)
        IN  CleanLoop(p, e, o1 \o SubSeq(p, r, e - 1), dotdot, rooted)

Clean(p) ==
    IF p = <<>> THEN <<".">>
    ELSE LET rooted == p[1] = "/"
             out    == IF rooted THEN CleanLoop(p, 2, <<"/">>, 1, TRUE)
                                 ELSE CleanLoop(p, 1, <<>>, 0, FALSE)
         IN  IF out = <<>> THEN <<".">> ELSE out

(***************************************************************************)
(* Path Normalizer                                                         *)
(***************************************************************************)
GlobMeta == {"*", "?", "["}

hasGlobMeta(v) == ContainsAny(v, GlobMeta)

Ok(v)    == [err |-> "", val |-> v]
Fail(e)  == [err |-> e, val |-> <<>>]

\* normalizePolisPath testing for traversal on the trimmed input instead of the cleaned path
normalizePolisPathRawPrefix(p) ==
    LET v == TrimSpace(ReplaceBackslash(p)) IN
    IF v = <<>> THEN Fail("path cannot be empty")
    ELSE IF IsAbs(v) THEN Fail("path must be relative")
    ELSE LET keepDirMarker == HasSuffix(v, <<"/">>)
             clean         == Clean(v)
         IN  IF clean = <<".">> THEN Fail("path cannot be current directory")
             ELSE IF v = <<".", ".">> \/ HasPrefix(v, <<".", ".", "/">>)
                  THEN Fail("path traversal (..) is not allowed")
             ELSE IF keepDirMarker /\ clean # <<"/">> THEN Ok(Append(clean, "/"))
             ELSE Ok(clean)

normalizePolisPath(p) ==
    LET v == TrimSpace(ReplaceBackslash(p)) IN
    IF v = <<>> THEN Fail("path cannot be empty")
    ELSE IF IsAbs(v) THEN Fail("path must be relative")
    ELSE LET keepDirMarker == HasSuffix(v, <<"/">>)
             clean         == Clean(v)
         IN  IF clean = <<".">> THEN Fail("path cannot be current directory")
             ELSE IF clean = <<".", ".">> \/ HasPrefix(clean, <<".", ".", "/">>)
                  THEN Fail("path traversal (..) is not allowed")
             ELSE IF keepDirMarker /\ clean # <<"/">> THEN Ok(Append(clean, "/"))
             ELSE Ok(clean)

normalizeHookPath(p) ==
    LET r == normalizePolisPath(p) IN
    IF r.err # "" THEN Fail("invalid hook path")
    ELSE IF HasSuffix(r.val, <<"/">>) THEN Fail("hook file cannot be a directory path")
    ELSE IF hasGlobMeta(r.val) THEN Fail("hook file cannot include glob meta")
    ELSE Ok(r.val)

(***************************************************************************)
(* Contract Loader.  A parsed city.toml is a record: whether the file can  *)
(* be read, whether it is valid TOML, [city].schema_version (a *int: it    *)
(* may be absent), polis_files, standalone_check and the [[hook]] blocks.  *)
(***************************************************************************)
NoConfig == [SchemaVersion |-> 0, PolisFiles |-> <<>>, StandaloneCheck |-> <<>>, Hooks |-> <<>>]

ContractError(msg) == [err |-> msg, cfg |-> NoConfig]

\* the loop over raw.City.PolisFiles
RECURSIVE loadPolisFiles(_, _, _)
loadPolisFiles(entries, i, acc) ==
    IF i > Len(entries) THEN Ok(acc)
    ELSE LET norm == normalizePolisPath(entries[i]) IN
         IF norm.err # "" THEN Fail("invalid city.toml polis_files entry")
         ELSE loadPolisFiles(entries, i + 1, Append(acc, norm.val))

\* the loop over raw.Hook
RECURSIVE loadHooks(_, _, _)
loadHooks(hooks, i, acc) ==
    IF i > Len(hooks) THEN Ok(acc)
    ELSE LET file == normalizeHookPath(hooks[i].File) IN
         IF file.err # "" THEN Fail("invalid city.toml hook.file")
         ELSE loadHooks(hooks, i + 1,
                        Append(acc, [File |-> file.val, Fallback |-> TrimSpace(hooks[i].Fallback)]))

\* loadConfig without the test of the schema version's value
loadConfigAnyVersion(raw) ==
    IF ~raw.readable THEN ContractError("invalid city.toml: read error")
    ELSE IF ~raw.parses THEN ContractError("invalid city.toml TOML")
    ELSE IF ~raw.schema_version.present
         THEN ContractError("invalid city.toml: [city].schema_version is required")
    ELSE LET polisFiles == loadPolisFiles(raw.polis_files, 1, <<>>) IN
         IF polisFiles.err # "" THEN ContractError(polisFiles.err)
         ELSE LET hooks == loadHooks(raw.hook, 1, <<>>) IN
              IF hooks.err # "" THEN ContractError(hooks.err)
              ELSE [err |-> "",
                    cfg |-> [SchemaVersion   |-> raw.schema_version.value,
                             PolisFiles      |-> polisFiles.val,
                             StandaloneCheck |-> TrimSpace(raw.standalone_check),
                             Hooks           |-> hooks.val]]

loadConfig(raw) ==
    IF ~raw.readable THEN ContractError("invalid city.toml: read error")
    ELSE IF ~raw.parses THEN ContractError("invalid city.toml TOML")
    ELSE IF ~raw.schema_version.present
         THEN ContractError("invalid city.toml: [city].schema_version is required")
    ELSE IF raw.schema_version.value # 1
         THEN ContractError("invalid city.toml: unsupported schema_version")
    ELSE LET polisFiles == loadPolisFiles(raw.polis_files, 1, <<>>) IN
         IF polisFiles.err # "" THEN ContractError(polisFiles.err)
         ELSE LET hooks == loadHooks(raw.hook, 1, <<>>) IN
              IF hooks.err # "" THEN ContractError(hooks.err)
              ELSE [err |-> "",
                    cfg |-> [SchemaVersion   |-> raw.schema_version.value,
                             PolisFiles      |-> polisFiles.val,
                             StandaloneCheck |-> TrimSpace(raw.standalone_check),
                             Hooks           |-> hooks.val]]

(***************************************************************************)
(* path.Match (Go standard library): shell pattern matching within one     *)
(* segment, with its ErrBadPattern outcome.                                *)
(***************************************************************************)
\* the printable ASCII characters, code 32 first (code 96 is written "grave")
Printable == <<
    " ", "!", "\"", "#", "$", "%", "&", "'", "(", ")", "*", "+", ",", "-", ".", "/",
    "0", "1", "2", "3", "4", "5", "6", "7", "8", "9", ":", ";", "<", "=", ">", "?",
    "@", "A", "B", "C", "D", "E", "F", "G", "H", "I", "J", "K", "L", "M", "N", "O",
    "P", "Q", "R", "S", "T", "U", "V", "W", "X", "Y", "Z", "[", "\\", "]", "^", "_",
    "grave", "a", "b", "c", "d", "e", "f", "g", "h", "i", "j", "k", "l", "m", "n", "o",
    "p", "q", "r", "s", "t", "u", "v", "w", "x", "y", "z", "{", "|", "}", "~" >>

\* the byte value of a character
Ord(c) ==
    IF c = "\t" THEN 9
    ELSE IF \E i \in 1..Len(Printable) : Printable[i] = c
         THEN 31 + (CHOOSE i \in 1..Len(Printable) : Printable[i] = c)
         ELSE 0

RECURSIVE ScanEnd(_, _, _)
ScanEnd(pattern, i, inrange) ==
    IF i > Len(pattern) THEN i
    ELSE IF pattern[i] = "\\" THEN ScanEnd(pattern, IF i + 1 <= Len(pattern) THEN i + 2 ELSE i + 1, inrange)
    ELSE IF pattern[i] = "[" THEN ScanEnd(pattern, i + 1, TRUE)
    ELSE IF pattern[i] = "]" THEN ScanEnd(pattern, i + 1, FALSE)
    ELSE IF pattern[i] = "*" /\ ~inrange THEN i
    ELSE ScanEnd(pattern, i + 1, inrange)

RECURSIVE SkipStars(_)
SkipStars(pattern) == IF pattern # <<>> /\ Head(pattern) = "*" THEN SkipStars(Tail(pattern)) ELSE pattern

scanChunk(pattern) ==
    LET p == SkipStars(pattern)
        i == ScanEnd(p, 1, FALSE)
    IN  [star |-> Len(p) < Len(pattern), chunk |-> SubSeq(p, 1, i - 1), rest |-> SubSeq(p, i, Len(p))]

getEsc(chunk) ==
    IF chunk = <<>> \/ chunk[1] \in {"-", "]"} THEN [err |-> TRUE, r |-> 0, rest |-> <<>>]
    ELSE LET c == IF chunk[1] = "\\" THEN Tail(chunk) ELSE chunk IN
         IF c = <<>> THEN [err |-> TRUE, r |-> 0, rest |-> <<>>]
         ELSE [err |-> Tail(c) = <<>>, r |-> Ord(c[1]), rest |-> Tail(c)]

RECURSIVE ParseRanges(_, _, _, _)
ParseRanges(chunk, r, match, nrange) ==
    IF chunk # <<>> /\ chunk[1] = "]" /\ nrange > 0
    THEN [err |-> FALSE, match |-> match, rest |-> Tail(chunk)]
    ELSE LET lo == getEsc(chunk) IN
         IF lo.err THEN [err |-> TRUE, match |-> FALSE, rest |-> <<>>]
         ELSE IF lo.rest[1] = "-" THEN
                  LET hi == getEsc(Tail(lo.rest)) IN
                  IF hi.err THEN [err |-> TRUE, match |-> FALSE, rest |-> <<>>]
                  ELSE ParseRanges(hi.rest, r, match \/ (lo.r <= r /\ r <= hi.r), nrange + 1)
              ELSE ParseRanges(lo.rest, r, match \/ lo.r = r, nrange + 1)

RECURSIVE matchChunk(_, _, _)
matchChunk(chunk, s, wasFailed) ==
    IF chunk = <<>> THEN
        IF wasFailed THEN [rest |-> <<>>, ok |-> FALSE, err |-> FALSE]
        ELSE [rest |-> s, ok |-> TRUE, err |-> FALSE]
    ELSE
        LET failed == wasFailed \/ s = <<>> IN
        IF chunk[1] = "[" THEN
            LET r       == IF failed THEN 0 ELSE Ord(s[1])
                s1      == IF failed THEN s ELSE Tail(s)
                c1      == Tail(chunk)
                negated == c1 # <<>> /\ c1[1] = "^"
                c2      == IF negated THEN Tail(c1) ELSE c1
                pr      == ParseRanges(c2, r, FALSE, 0)
            IN  IF pr.err THEN [rest |-> <<>>, ok |-> FALSE, err |-> TRUE]
                ELSE matchChunk(pr.rest, s1, failed \/ (pr.match = negated))
        ELSE IF chunk[1] = "?" THEN
            IF failed THEN matchChunk(Tail(chunk), s, TRUE)
            ELSE matchChunk(Tail(chunk), Tail(s), s[1] = "/")
        ELSE
            LET c == IF chunk[1] = "\\" THEN Tail(chunk) ELSE chunk IN
            IF c = <<>> THEN [rest |-> <<>>, ok |-> FALSE, err |-> TRUE]
            ELSE IF failed THEN matchChunk(Tail(c), s, TRUE)
            ELSE matchChunk(Tail(c), Tail(s), c[1] # s[1])

\* after a mismatch: is the remainder of the pattern syntactically valid?
RECURSIVE RestBad(_)
RestBad(pattern) ==
    IF pattern = <<>> THEN FALSE
    ELSE LET sc == scanChunk(pattern)
         IN  matchChunk(sc.chunk, <<>>, FALSE).err \/ RestBad(sc.rest)

RECURSIVE StarSkip(_, _, _, _)
RECURSIVE MatchLoop(_, _)

\* the loop "Look for match skipping i+1 bytes" of Match; i counts from 0
StarSkip(chunk, rest, name, i) ==
    IF i < Len(name) /\ name[i + 1] # "/" THEN
        LET m == matchChunk(chunk, SubSeq(name, i + 2, Len(name)), FALSE) IN
        IF m.ok THEN
            IF rest = <<>> /\ m.rest # <<>> THEN StarSkip(chunk, rest, name, i + 1)
            ELSE MatchLoop(rest, m.rest)
        ELSE IF m.err THEN [matched |-> FALSE, err |-> TRUE]
        ELSE StarSkip(chunk, rest, name, i + 1)
    ELSE [matched |-> FALSE, err |-> RestBad(rest)]

MatchLoop(pattern, name) ==
    IF pattern = <<>> THEN [matched |-> name = <<>>, err |-> FALSE]
    ELSE
        LET sc == scanChunk(pattern) IN
        IF sc.star /\ sc.chunk = <<>>
        THEN [matched |-> \A i \in 1..Len(name) : name[i] # "/", err |-> FALSE]
        ELSE
            LET m == matchChunk(sc.chunk, name, FALSE) IN
            IF m.ok /\ (m.rest = <<>> \/ sc.rest # <<>>) THEN MatchLoop(sc.rest, m.rest)
            ELSE IF m.err THEN [matched |-> FALSE, err |-> TRUE]
            ELSE IF sc.star THEN StarSkip(sc.chunk, sc.rest, name, 0)
            ELSE [matched |-> FALSE, err |-> RestBad(sc.rest)]

\* path.Match(pattern, name)
Match(pattern, name) == MatchLoop(pattern, name)

(***************************************************************************)
(* Glob Matcher                                                            *)
(***************************************************************************)
splitSegments(v) ==
    SelectSeq(SplitSlash(v), LAMBDA p : p # <<>> /\ p # <<".">>)

DoubleStar == <<"*", "*">>

\* "ok, err := path.Match(...); if err != nil || !ok { return false }"
segmentMatched(m) == ~m.err /\ m.matched

RECURSIVE matchRec(_, _, _, _)
matchRec(pattern, value, i, j) ==
    IF i = Len(pattern) + 1 /\ j = Len(value) + 1 THEN TRUE
    ELSE IF i = Len(pattern) + 1 THEN FALSE
    ELSE IF pattern[i] = DoubleStar THEN
        IF matchRec(pattern, value, i + 1, j) THEN TRUE
        ELSE IF j < Len(value) + 1 THEN matchRec(pattern, value, i, j + 1)
        ELSE FALSE
    ELSE IF j >= Len(value) + 1 THEN FALSE
    ELSE IF ~segmentMatched(Match(pattern[i], value[j])) THEN FALSE
    ELSE matchRec(pattern, value, i + 1, j + 1)

\* a matcher in which "**" stands for exactly one segment
matchSegmentsOneEach(pattern, value) ==
    /\ Len(pattern) = Len(value)
    /\ \A i \in 1..Len(pattern) :
          pattern[i] = DoubleStar \/ segmentMatched(Match(pattern[i], value[i]))

matchSegments(pattern, value) == matchRec(pattern, value, 1, 1)

matchGlobPattern(pattern, rel) ==
    matchSegments(splitSegments(Clean(pattern)), splitSegments(Clean(rel)))

SampleToken == <<"s", "a", "m", "p", "l", "e">>

RECURSIVE synthLoop(_, _, _, _)
synthLoop(pattern, i, inClass, b) ==
    IF i > Len(pattern) THEN b
    ELSE LET ch == pattern[i] IN
         IF inClass THEN
             IF ch = "]" THEN synthLoop(pattern, i + 1, FALSE, Append(b, "x"))
             ELSE synthLoop(pattern, i + 1, TRUE, b)
         ELSE IF ch = "[" THEN synthLoop(pattern, i + 1, TRUE, b)
         ELSE IF ch = "*" THEN
             IF i + 1 <= Len(pattern) /\ pattern[i + 1] = "*"
             THEN synthLoop(pattern, i + 2, FALSE, b \o SampleToken)
             ELSE synthLoop(pattern, i + 1, FALSE, b \o SampleToken)
         ELSE IF ch = "?" THEN synthLoop(pattern, i + 1, FALSE, Append(b, "x"))
         ELSE synthLoop(pattern, i + 1, FALSE, Append(b, ch))

synthesizePathFromPattern(pattern) ==
    LET b  == synthLoop(pattern, 1, FALSE, <<>>)
        v1 == IF b = <<>> THEN SampleToken ELSE b
        v2 == IF HasSuffix(v1, <<"/">>) THEN v1 \o SampleToken ELSE v1
    IN  Clean(v2)

\* path.Join(a, b)
PathJoin(a, b) ==
    IF a = <<>> /\ b = <<>> THEN <<>>
    ELSE IF a = <<>> THEN Clean(b)
    ELSE IF b = <<>> THEN Clean(a)
    ELSE Clean(a \o <<"/">> \o b)

GateCitySample == <<".", "g", "a", "t", "e", "-", "c", "i", "t", "y", "-", "s", "a", "m", "p", "l", "e">>

ignoreCandidate(entry) ==
    IF hasGlobMeta(entry) THEN synthesizePathFromPattern(entry)
    ELSE IF HasSuffix(entry, <<"/">>) THEN PathJoin(TrimSuffix(entry, <<"/">>), GateCitySample)
    ELSE entry

(***************************************************************************)
(* Check results.  A detail string is kept in structured form: the fixed   *)
(* message text and the items that fmt.Sprintf / strings.Join put into it. *)
(***************************************************************************)
StatusPass == "pass"
StatusFail == "fail"
StatusSkip == "skip"

Result(status, msg, items) == [status |-> status, msg |-> msg, items |-> items]

(***************************************************************************)
(* Boundary Checker                                                        *)
(***************************************************************************)
\* outcomes of running "git check-ignore -q --no-index <path>":
\* exit status 0, exit status 1, another exit status, or the command cannot be run
GitExits == {"exit0", "exit1", "exit128", "cannot-run"}

\* gitIgnored with the exit-status test lost: every exit status other than 1 reads as "ignored"
gitIgnoredAnyExit(exit) ==
    IF exit = "exit1" THEN [ignored |-> FALSE, err |-> ""]
    ELSE IF exit = "cannot-run" THEN [ignored |-> FALSE, err |-> "exec error"]
    ELSE [ignored |-> TRUE, err |-> ""]

gitIgnored(exit) ==
    IF exit = "exit0" THEN [ignored |-> TRUE, err |-> ""]
    ELSE IF exit = "exit1" THEN [ignored |-> FALSE, err |-> ""]
    ELSE IF exit = "exit128" THEN [ignored |-> FALSE, err |-> "exit 128"]
    ELSE [ignored |-> FALSE, err |-> "exec error"]

\* the loop of checkBoundary; oracle maps a probe path to the outcome of the git query
RECURSIVE boundaryLoop(_, _, _, _)

\* boundaryLoop returning at the first entry that is not ignored
RECURSIVE boundaryLoopFirstOnly(_, _, _, _)
boundaryLoopFirstOnly(polisFiles, oracle, i, missing) ==
    IF i > Len(polisFiles) THEN Result(StatusPass, "polis_files all ignored by Git semantics", <<>>)
    ELSE
        LET entry     == polisFiles[i]
            candidate == ignoreCandidate(entry)
            q         == gitIgnored(oracle[candidate])
        IN  IF q.err # "" THEN Result(StatusFail, "git check-ignore failed", <<entry>>)
            ELSE IF ~q.ignored THEN Result(StatusFail, "not ignored by Git semantics", <<entry>>)
            ELSE boundaryLoopFirstOnly(polisFiles, oracle, i + 1, missing)

boundaryLoop(polisFiles, oracle, i, missing) ==
    IF i > Len(polisFiles) THEN
        IF Len(missing) > 0
        THEN Result(StatusFail, "not ignored by Git semantics", missing)
        ELSE Result(StatusPass, "polis_files all ignored by Git semantics", <<>>)
    ELSE
        LET entry     == polisFiles[i]
            candidate == ignoreCandidate(entry)
            q         == gitIgnored(oracle[candidate])
        IN  IF q.err # "" THEN Result(StatusFail, "git check-ignore failed", <<entry>>)
            ELSE IF ~q.ignored THEN boundaryLoop(polisFiles, oracle, i + 1, Append(missing, entry))
            ELSE boundaryLoop(polisFiles, oracle, i + 1, missing)

\* checkBoundary answering skip when nothing is declared
checkBoundarySkipWhenEmpty(polisFiles, oracle) ==
    IF Len(polisFiles) = 0 THEN Result(StatusSkip, "no polis_files declared", <<>>)
    ELSE boundaryLoop(polisFiles, oracle, 1, <<>>)

checkBoundary(polisFiles, oracle) ==
    IF Len(polisFiles) = 0 THEN Result(StatusPass, "no polis_files declared", <<>>)
    ELSE boundaryLoop(polisFiles, oracle, 1, <<>>)

\* the probe paths checkBoundary hands to git, in order (it stops after a query error)
RECURSIVE boundaryQueries(_, _, _)
boundaryQueries(polisFiles, oracle, i) ==
    IF i > Len(polisFiles) THEN <<>>
    ELSE LET candidate == ignoreCandidate(polisFiles[i]) IN
         IF gitIgnored(oracle[candidate]).err # "" THEN <<candidate>>
         ELSE <<candidate>> \o boundaryQueries(polisFiles, oracle, i + 1)

(***************************************************************************)
(* The install location: a small file tree.  Every path of FsPaths is      *)
(* absent or holds an object of one kind; WalkOrder is the order in which  *)
(* filepath.WalkDir visits them (lexical, parents first).                  *)
(***************************************************************************)
P_a  == <<"a">>
P_d  == <<"d">>
P_da == <<"d", "/", "a">>

FsPaths   == {P_a, P_d, P_da}
WalkOrder == <<P_a, P_d, P_da>>

\* "unreadable-dir" is a directory whose listing fails (os.ReadDir returns an error)
FsKinds == {"absent", "file", "dir", "unreadable-dir", "symlink", "other"}

\* the file trees: rootExists says whether the install location itself exists
FileTrees ==
    {[rootExists |-> FALSE, obj |-> [p \in FsPaths |-> "absent"]]}
    \cup
    {[rootExists |-> TRUE, obj |-> o] :
        o \in {f \in [FsPaths -> FsKinds] : f[P_da] # "absent" => f[P_d] = "dir"}}

\* os.Lstat(filepath.Join(installAt, filepath.FromSlash(rel))): the kind found, "absent" for an error
Lstat(fs, rel) ==
    LET target == Clean(rel) IN
    IF fs.rootExists /\ target \in FsPaths THEN fs.obj[target] ELSE "absent"

IsSymlink(kind) == kind = "symlink"
IsDir(kind)     == kind \in {"dir", "unreadable-dir"}
IsRegular(kind) == kind = "file"

modeKind(kind) ==
    IF IsDir(kind) THEN "directory"
    ELSE IF IsRegular(kind) THEN "file"
    ELSE IF IsSymlink(kind) THEN "symlink"
    ELSE "non-regular"

(***************************************************************************)
(* Split Validator                                                         *)
(***************************************************************************)
\* the callback sequence of filepath.WalkDir(root, ...) inside hasGlobMatch
RECURSIVE walkFrom(_, _, _)
walkFrom(fs, pattern, i) ==
    IF i > Len(WalkOrder) THEN [ok |-> FALSE, err |-> ""]
    ELSE LET rel == WalkOrder[i] IN
         IF fs.obj[rel] = "absent" THEN walkFrom(fs, pattern, i + 1)
         ELSE IF matchGlobPattern(pattern, rel) THEN [ok |-> TRUE, err |-> ""]
         ELSE IF fs.obj[rel] = "unreadable-dir" THEN [ok |-> FALSE, err |-> "walk error"]
         ELSE walkFrom(fs, pattern, i + 1)

hasGlobMatch(fs, pattern) ==
    IF ~fs.rootExists THEN [ok |-> FALSE, err |-> "walk error"]
    ELSE walkFrom(fs, pattern, 1)

NoProblem == [msg |-> "", found |-> ""]

Problem(msg, found) == [msg |-> msg, found |-> found]

\* the glob branch of checkSplit, g the result of hasGlobMatch
globProblem(g) ==
    IF g.err # "" THEN Problem("check failed", g.err)
    ELSE IF ~g.ok THEN Problem("missing (glob no matches)", "")
    ELSE NoProblem

\* splitEntry without the type tests: any object found by Lstat counts, unless it is a symlink
splitEntryAnyType(fs, entry) ==
    IF hasGlobMeta(entry) THEN globProblem(hasGlobMatch(fs, entry))
    ELSE
        LET info == Lstat(fs, TrimSuffix(entry, <<"/">>)) IN
        IF info = "absent" THEN Problem("missing at", "")
        ELSE IF IsSymlink(info) THEN Problem("expected file but found", "symlink")
        ELSE NoProblem

\* the loop body of checkSplit testing the directory marker before the glob characters
splitEntrySuffixFirst(fs, entry) ==
    IF HasSuffix(entry, <<"/">>) THEN
        LET info == Lstat(fs, TrimSuffix(entry, <<"/">>)) IN
        IF info = "absent" THEN Problem("missing at", "")
        ELSE IF IsSymlink(info) THEN Problem("expected directory but found", "symlink")
        ELSE IF ~IsDir(info) THEN Problem("expected directory but found", modeKind(info))
        ELSE NoProblem
    ELSE IF hasGlobMeta(entry) THEN globProblem(hasGlobMatch(fs, entry))
    ELSE
        LET info == Lstat(fs, entry) IN
        IF info = "absent" THEN Problem("missing at", "")
        ELSE IF IsSymlink(info) THEN Problem("expected file but found", "symlink")
        ELSE IF ~IsRegular(info) THEN Problem("expected file but found", modeKind(info))
        ELSE NoProblem

\* the problem checkSplit reports for one entry, NoProblem when the entry is present
splitEntry(fs, entry) ==
    IF hasGlobMeta(entry) THEN globProblem(hasGlobMatch(fs, entry))
    ELSE IF HasSuffix(entry, <<"/">>) THEN
        LET info == Lstat(fs, TrimSuffix(entry, <<"/">>)) IN
        IF info = "absent" THEN Problem("missing at", "")
        ELSE IF IsSymlink(info) THEN Problem("expected directory but found", "symlink")
        ELSE IF ~IsDir(info) THEN Problem("expected directory but found", modeKind(info))
        ELSE NoProblem
    ELSE
        LET info == Lstat(fs, entry) IN
        IF info = "absent" THEN Problem("missing at", "")
        ELSE IF IsSymlink(info) THEN Problem("expected file but found", "symlink")
        ELSE IF ~IsRegular(info) THEN Problem("expected file but found", modeKind(info))
        ELSE NoProblem

\* "missing = append(missing, ...)" of each failing branch of checkSplit
appendMissing(missing, entry, problem) ==
    IF problem # NoProblem THEN Append(missing, [entry |-> entry, problem |-> problem]) ELSE missing

RECURSIVE splitLoop(_, _, _, _)
splitLoop(polisFiles, fs, i, missing) ==
    IF i > Len(polisFiles) THEN missing
    ELSE splitLoop(polisFiles, fs, i + 1, appendMissing(missing, polisFiles[i], splitEntry(fs, polisFiles[i])))

\* the return statements of checkSplit after its loop
splitResult(missing) ==
    IF Len(missing) > 0 THEN Result(StatusFail, "missing", missing)
    ELSE Result(StatusPass, "polis files present at install path", <<>>)

\* checkSplit passing, instead of skipping, when nothing is declared and no install location is given
checkSplitPassWhenNothingDeclared(polisFiles, installAt, fs) ==
    IF installAt = <<>> THEN
        IF polisFiles = <<>> THEN Result(StatusPass, "polis files present at install path", <<>>)
        ELSE Result(StatusSkip, "skipped: --install-at not provided", <<>>)
    ELSE splitResult(splitLoop(polisFiles, fs, 1, <<>>))

\* installAt is the empty string when --install-at was not given
checkSplit(polisFiles, installAt, fs) ==
    IF installAt = <<>> THEN Result(StatusSkip, "skipped: --install-at not provided", <<>>)
    ELSE splitResult(splitLoop(polisFiles, fs, 1, <<>>))

(***************************************************************************)
(* Hook Validator                                                          *)
(***************************************************************************)
F_defaults == <<"d", "e", "f", "a", "u", "l", "t", "s">>
F_fail     == <<"f", "a", "i", "l">>
EnvPrefix  == <<"e", "n", "v", ":">>

IsUpper(c) == Ord(c) >= 65 /\ Ord(c) <= 90
IsDigit(c) == Ord(c) >= 48 /\ Ord(c) <= 57

IsLower(c) == Ord(c) >= 97 /\ Ord(c) <= 122

\* the name pattern without regard to case: ^[A-Za-z_][A-Za-z0-9_]*$
envFallbackReAnyCase(v) ==
    /\ Len(v) >= 1
    /\ IsUpper(v[1]) \/ IsLower(v[1]) \/ v[1] = "_"
    /\ \A i \in 2..Len(v) : IsUpper(v[i]) \/ IsLower(v[i]) \/ IsDigit(v[i]) \/ v[i] = "_"

\* envFallbackRe.MatchString: ^[A-Z_][A-Z0-9_]*$
envFallbackRe(v) ==
    /\ Len(v) >= 1
    /\ IsUpper(v[1]) \/ v[1] = "_"
    /\ \A i \in 2..Len(v) : IsUpper(v[i]) \/ IsDigit(v[i]) \/ v[i] = "_"

HookProblem(file, msg) == [hook |-> file, problem |-> msg]

\* a problem whose text quotes the fallback: "%s has invalid fallback %q"
InvalidFallback(h, msg) == [hook |-> h.File, problem |-> msg, fallback |-> h.Fallback]

\* the problems the switch on h.Fallback appends for one hook
fallbackProblems(h, installAt, fs) ==
    IF h.Fallback = F_defaults THEN <<>>
    ELSE IF h.Fallback = F_fail THEN
        IF installAt = <<>> THEN <<HookProblem(h.File, "fallback=fail requires --install-at")>>
        ELSE LET info == Lstat(fs, h.File) IN
             IF info = "absent"
             THEN <<HookProblem(h.File, "fallback=fail but file missing at install path")>>
             ELSE IF IsSymlink(info)
             THEN <<HookProblem(h.File, "fallback=fail but install path is symlink")>>
             ELSE <<>>
    ELSE IF HasPrefix(h.Fallback, EnvPrefix) THEN
        IF ~envFallbackRe(TrimPrefix(h.Fallback, EnvPrefix))
        THEN <<InvalidFallback(h, "has invalid env fallback")>>
        ELSE <<>>
    ELSE <<InvalidFallback(h, "has invalid fallback")>>

\* the loop of checkHooks looking the hook up among the declared paths as they are written
RECURSIVE hooksLoopExactMatch(_, _, _, _, _)
hooksLoopExactMatch(cfg, installAt, fs, i, problems) ==
    IF i > Len(cfg.Hooks) THEN problems
    ELSE LET h        == cfg.Hooks[i]
             polisSet == {cfg.PolisFiles[k] : k \in 1..Len(cfg.PolisFiles)}
             listed   == IF h.File \notin polisSet
                         THEN <<HookProblem(h.File, "not listed in polis_files")>> ELSE <<>>
         IN  hooksLoopExactMatch(cfg, installAt, fs, i + 1,
                                 problems \o listed \o fallbackProblems(h, installAt, fs))

\* the loop of checkHooks leaving at the first hook that has a problem
RECURSIVE hooksLoopFirstProblem(_, _, _, _, _)
hooksLoopFirstProblem(cfg, installAt, fs, i, problems) ==
    IF i > Len(cfg.Hooks) \/ problems # <<>> THEN problems
    ELSE LET h        == cfg.Hooks[i]
             polisSet == {TrimSuffix(cfg.PolisFiles[k], <<"/">>) : k \in 1..Len(cfg.PolisFiles)}
             listed   == IF h.File \notin polisSet
                         THEN <<HookProblem(h.File, "not listed in polis_files")>> ELSE <<>>
         IN  hooksLoopFirstProblem(cfg, installAt, fs, i + 1,
                                   problems \o listed \o fallbackProblems(h, installAt, fs))

RECURSIVE hooksLoop(_, _, _, _, _)
hooksLoop(cfg, installAt, fs, i, problems) ==
    IF i > Len(cfg.Hooks) THEN problems
    ELSE LET h        == cfg.Hooks[i]
             polisSet == {TrimSuffix(cfg.PolisFiles[k], <<"/">>) : k \in 1..Len(cfg.PolisFiles)}
             listed   == IF h.File \notin polisSet
                         THEN <<HookProblem(h.File, "not listed in polis_files")>> ELSE <<>>
         IN  hooksLoop(cfg, installAt, fs, i + 1,
                       problems \o listed \o fallbackProblems(h, installAt, fs))

\* checkHooks answering skip when there is nothing to validate
checkHooksSkipWhenEmpty(cfg, installAt, fs) ==
    IF Len(cfg.Hooks) = 0 THEN Result(StatusSkip, "no hooks declared", <<>>)
    ELSE LET problems == hooksLoop(cfg, installAt, fs, 1, <<>>) IN
         IF Len(problems) > 0 THEN Result(StatusFail, "problems", problems)
         ELSE Result(StatusPass, "hooks sound", <<>>)

checkHooks(cfg, installAt, fs) ==
    IF Len(cfg.Hooks) = 0 THEN Result(StatusPass, "no hooks declared", <<>>)
    ELSE LET problems == hooksLoop(cfg, installAt, fs, 1, <<>>) IN
         IF Len(problems) > 0 THEN Result(StatusFail, "problems", problems)
         ELSE Result(StatusPass, "hooks sound", <<>>)

(***************************************************************************)
(* Standalone Validator.  What the outside world does is a record:         *)
(* whether os.MkdirTemp and git clone succeed, how the bash command ended  *)
(* (exit status zero, non-zero, or killed) and what cmdCtx.Err() holds     *)
(* when checkStandalone reads it after CombinedOutput returned.            *)
(***************************************************************************)
StandaloneWorlds ==
    {[mkdir |-> m, clone |-> c, exit |-> e, ctx |-> x] :
        m \in BOOLEAN, c \in BOOLEAN,
        e \in {"zero", "nonzero", "killed"},
        x \in {"none", "DeadlineExceeded", "Canceled"}}

\* the worlds that can occur: a killed command has an expired or cancelled context,
\* and nothing after a failed step is observed
PossibleWorlds ==
    {w \in StandaloneWorlds :
        /\ w.exit = "killed" => w.ctx # "none"
        /\ ~w.mkdir => (w.clone /\ w.exit = "zero" /\ w.ctx = "none")
        /\ ~w.clone => (w.exit = "zero" /\ w.ctx = "none")}

\* checkStandalone comparing the declared command with "" without trimming it
checkStandaloneNoTrim(cfg, opts, world) ==
    IF opts.SkipStandalone THEN Result(StatusSkip, "skipped by --skip-standalone", <<>>)
    ELSE IF cfg.StandaloneCheck = <<>>
         THEN Result(StatusSkip, "standalone_check empty in city.toml", <<>>)
    ELSE IF ~world.mkdir THEN Result(StatusFail, "failed to prepare temp dir", <<>>)
    ELSE IF ~world.clone THEN Result(StatusFail, "clone failed", <<>>)
    ELSE IF world.ctx = "DeadlineExceeded" THEN Result(StatusFail, "standalone_check timed out", <<>>)
    ELSE IF world.exit # "zero" THEN Result(StatusFail, "standalone_check failed", <<>>)
    ELSE Result(StatusPass, "standalone_check exited 0", <<>>)

\* checkStandalone testing the command's error before the deadline of cmdCtx
checkStandaloneErrFirst(cfg, opts, world) ==
    IF opts.SkipStandalone THEN Result(StatusSkip, "skipped by --skip-standalone", <<>>)
    ELSE IF TrimSpace(cfg.StandaloneCheck) = <<>>
         THEN Result(StatusSkip, "standalone_check empty in city.toml", <<>>)
    ELSE IF ~world.mkdir THEN Result(StatusFail, "failed to prepare temp dir", <<>>)
    ELSE IF ~world.clone THEN Result(StatusFail, "clone failed", <<>>)
    ELSE IF world.exit # "zero" THEN Result(StatusFail, "standalone_check failed", <<>>)
    ELSE IF world.ctx = "DeadlineExceeded" THEN Result(StatusFail, "standalone_check timed out", <<>>)
    ELSE Result(StatusPass, "standalone_check exited 0", <<>>)

checkStandalone(cfg, opts, world) ==
    IF opts.SkipStandalone THEN Result(StatusSkip, "skipped by --skip-standalone", <<>>)
    ELSE IF TrimSpace(cfg.StandaloneCheck) = <<>>
         THEN Result(StatusSkip, "standalone_check empty in city.toml", <<>>)
    ELSE IF ~world.mkdir THEN Result(StatusFail, "failed to prepare temp dir", <<>>)
    ELSE IF ~world.clone THEN Result(StatusFail, "clone failed", <<>>)
    ELSE IF world.ctx = "DeadlineExceeded" THEN Result(StatusFail, "standalone_check timed out", <<>>)
    ELSE IF world.exit # "zero" THEN Result(StatusFail, "standalone_check failed", <<>>)
    ELSE Result(StatusPass, "standalone_check exited 0", <<>>)

\* the external operations checkStandalone performs
standaloneEffects(cfg, opts, world) ==
    IF opts.SkipStandalone \/ TrimSpace(cfg.StandaloneCheck) = <<>> THEN {}
    ELSE IF ~world.mkdir THEN {"os.MkdirTemp"}
    ELSE IF ~world.clone THEN {"os.MkdirTemp", "git clone", "os.RemoveAll"}
    ELSE {"os.MkdirTemp", "git clone", "bash -lc", "os.RemoveAll"}

(***************************************************************************)
(* Verdict Aggregator                                                      *)
(***************************************************************************)
ExitPass    == 0
ExitFail    == 1
ExitWarn    == 2
ExitInvalid == 3

CheckResult(name, r) == [Name |-> name, Status |-> r.status, Detail |-> [msg |-> r.msg, items |-> r.items]]

timedCheck(name, r) == CheckResult(name, r)

RECURSIVE countStatus(_, _)
countStatus(results, status) ==
    IF results = <<>> THEN 0
    ELSE (IF Head(results).Status = status THEN 1 ELSE 0) + countStatus(Tail(results), status)

summarize(results) ==
    [Pass |-> countStatus(results, StatusPass),
     Fail |-> countStatus(results, StatusFail),
     Skip |-> countStatus(results, StatusSkip)]

\* the aggregation with its first two cases in the wrong order
verdictOfSkipFirst(results) ==
    LET summary == summarize(results) IN
    IF summary.Skip > 0
    THEN [Pass |-> FALSE, Status |-> "warn", Checks |-> results, Summary |-> summary, ExitCode |-> ExitWarn]
    ELSE IF summary.Fail > 0
    THEN [Pass |-> FALSE, Status |-> "fail", Checks |-> results, Summary |-> summary, ExitCode |-> ExitFail]
    ELSE [Pass |-> TRUE, Status |-> "pass", Checks |-> results, Summary |-> summary, ExitCode |-> ExitPass]

\* an aggregation that warns only for a skipped split check
verdictOfWarnBySplit(results) ==
    LET summary == summarize(results) IN
    IF summary.Fail > 0
    THEN [Pass |-> FALSE, Status |-> "fail", Checks |-> results, Summary |-> summary, ExitCode |-> ExitFail]
    ELSE IF results[Len(results)].Status = StatusSkip
    THEN [Pass |-> FALSE, Status |-> "warn", Checks |-> results, Summary |-> summary, ExitCode |-> ExitWarn]
    ELSE [Pass |-> TRUE, Status |-> "pass", Checks |-> results, Summary |-> summary, ExitCode |-> ExitPass]

\* an aggregation that reports a failed check with the exit code of an invalid contract
verdictOfFailAsInvalid(results) ==
    LET summary == summarize(results) IN
    IF summary.Fail > 0
    THEN [Pass |-> FALSE, Status |-> "fail", Checks |-> results, Summary |-> summary, ExitCode |-> ExitInvalid]
    ELSE IF summary.Skip > 0
    THEN [Pass |-> FALSE, Status |-> "warn", Checks |-> results, Summary |-> summary, ExitCode |-> ExitWarn]
    ELSE [Pass |-> TRUE, Status |-> "pass", Checks |-> results, Summary |-> summary, ExitCode |-> ExitPass]

\* the Verdict that Run builds from the four results
verdictOf(results) ==
    LET summary == summarize(results) IN
    IF summary.Fail > 0
    THEN [Pass |-> FALSE, Status |-> "fail", Checks |-> results, Summary |-> summary, ExitCode |-> ExitFail]
    ELSE IF summary.Skip > 0
    THEN [Pass |-> FALSE, Status |-> "warn", Checks |-> results, Summary |-> summary, ExitCode |-> ExitWarn]
    ELSE [Pass |-> TRUE, Status |-> "pass", Checks |-> results, Summary |-> summary, ExitCode |-> ExitPass]

\* an invalid verdict whose Summary counts nothing
invalidVerdictEmptySummary(detail) ==
    [Pass     |-> FALSE,
     Status   |-> "fail",
     Checks   |-> <<[Name |-> "contract", Status |-> StatusFail, Detail |-> [msg |-> detail, items |-> <<>>]]>>,
     Summary  |-> [Pass |-> 0, Fail |-> 0, Skip |-> 0],
     ExitCode |-> ExitInvalid]

invalidVerdict(detail) ==
    [Pass     |-> FALSE,
     Status   |-> "fail",
     Checks   |-> <<[Name |-> "contract", Status |-> StatusFail, Detail |-> [msg |-> detail, items |-> <<>>]]>>,
     Summary  |-> [Pass |-> 0, Fail |-> 1, Skip |-> 0],
     ExitCode |-> ExitInvalid]

(***************************************************************************)
(* Specification SpecNorm: the normalizers applied to one raw string       *)
(***************************************************************************)
NormAlphabet == {"a", ".", "/", "\\", " ", "*"}

RawStrings == StringsUpTo(NormAlphabet, MaxLen)

Pending == [err |-> "pending", val |-> <<>>]

IdleNorm     == nIn = <<>> /\ nOp = "idle" /\ nOut = Pending
IdleLoad     == lRaw = <<>> /\ lOut = Pending
IdleBoundary == bFiles = <<>> /\ bOracle = <<>> /\ bOut = Pending
IdleSplit    == sFiles = <<>> /\ sInstallAt = <<>> /\ sFs = <<>> /\ sOut = Pending

NoVerdict == [Pass |-> FALSE, Status |-> "", Checks |-> <<>>,
              Summary |-> [Pass |-> 0, Fail |-> 0, Skip |-> 0], ExitCode |-> 0 - 1]

NoWorld == [mkdir |-> TRUE, clone |-> TRUE, exit |-> "not-run", ctx |-> "none"]

IdleRun ==
    /\ rIn = <<>> /\ rPc = "idle" /\ rCfg = NoConfig /\ rWorld = NoWorld
    /\ rResults = <<>> /\ rEffects = {} /\ rVerdict = NoVerdict

IdleStandalone == tIn = <<>> /\ tPc = "idle" /\ tSys = <<>> /\ tOut = Pending
IdleHooks      == hCfg = NoConfig /\ hInstallAt = <<>> /\ hFs = <<>> /\ hOut = Pending
IdleEnv        == eHosts = <<>> /\ eEnvs = <<>>
IdleMatch      == mP = <<>> /\ mR = <<>> /\ mOut = Pending
IdleKind       == gEntry = <<>> /\ gFs = <<>> /\ gOut = Pending
IdlePair       == vA = NoVerdict /\ vB = NoVerdict
NoBead == 0              \* the empty string where a bead id is expected

BrWorks == [brFound |-> TRUE, searchOk |-> TRUE, closeOk |-> TRUE, createOk |-> TRUE]

NoCall == [made |-> FALSE, repo |-> "", status |-> "", env |-> BrWorks, before |-> <<>>, clean |-> TRUE]

IdleRecord     == kLedger = <<>> /\ kCall = NoCall /\ kRet = NoBead
IdleMore       == IdleMatch /\ IdleKind /\ IdlePair /\ IdleRecord
IdleCity       == IdleNorm /\ IdleLoad /\ IdleBoundary /\ IdleSplit /\ IdleRun /\ IdleStandalone /\ IdleHooks /\ IdleEnv

InitNorm ==
    /\ nIn \in RawStrings
    /\ nOp = "none"
    /\ nOut = Pending
    /\ IdleLoad /\ IdleBoundary /\ IdleSplit /\ IdleRun /\ IdleStandalone /\ IdleHooks /\ IdleEnv /\ IdleMore

NormalizePolis ==
    /\ nOp = "none"
    /\ nOp' = "polis"
    /\ nOut' = normalizePolisPath(nIn)
    /\ UNCHANGED <<nIn, loadVars, boundaryVars, splitVars, runVars, standaloneVars, hookVars, envVars, moreVars>>

NormalizeHook ==
    /\ nOp = "none"
    /\ nOp' = "hook"
    /\ nOut' = normalizeHookPath(nIn)
    /\ UNCHANGED <<nIn, loadVars, boundaryVars, splitVars, runVars, standaloneVars, hookVars, envVars, moreVars>>

\* an accepted entry given to normalizePolisPath once more
NormalizePolisAgain ==
    /\ nOp = "polis"
    /\ nOut.err = ""
    /\ nOp' = "polis-again"
    /\ nOut' = [err   |-> normalizePolisPath(nOut.val).err,
                val   |-> normalizePolisPath(nOut.val).val,
                first |-> nOut.val]
    /\ UNCHANGED <<nIn, loadVars, boundaryVars, splitVars, runVars, standaloneVars, hookVars, envVars, moreVars>>

NextNorm == NormalizePolis \/ NormalizeHook \/ NormalizePolisAgain

SpecNorm == InitNorm /\ [][NextNorm]_vars

(***************************************************************************)
(* Declared entries used by the check specifications: normalized paths of  *)
(* each kind (file, directory, glob) over the paths of the file tree.      *)
(***************************************************************************)
E_file      == <<"a">>
E_fileD     == <<"d">>
E_nested    == <<"d", "/", "a">>
E_dir       == <<"d", "/">>
E_dirA      == <<"a", "/">>
E_glob      == <<"*">>
E_globIn    == <<"*", "/", "a">>
E_globDir   == <<"*", "/">>

Entries == {E_file, E_fileD, E_nested, E_dir, E_dirA, E_glob, E_globIn, E_globDir}

RECURSIVE SeqsUpTo(_, _)
SeqsUpTo(S, n) ==
    IF n = 0 THEN {<<>>}
    ELSE LET shorter == SeqsUpTo(S, n - 1)
         IN  shorter \cup {Append(q, x) : q \in {t \in shorter : Len(t) = n - 1}, x \in S}

Range(q) == {q[i] : i \in 1..Len(q)}

Probes(polisFiles) == {ignoreCandidate(e) : e \in Range(polisFiles)}

(***************************************************************************)
(* Specification SpecBoundary: checkBoundary applied to declared entries   *)
(* under every answer pattern of the git oracle                            *)
(***************************************************************************)
InitBoundary ==
    /\ bFiles \in SeqsUpTo(Entries, MaxEntries)
    /\ bOracle \in [Probes(bFiles) -> GitExits]
    /\ bOut = Pending
    /\ IdleNorm /\ IdleLoad /\ IdleSplit /\ IdleRun /\ IdleStandalone /\ IdleHooks /\ IdleEnv /\ IdleMore

CheckBoundary ==
    /\ bOut = Pending
    /\ bOut' = checkBoundary(bFiles, bOracle)
    /\ UNCHANGED <<bFiles, bOracle, normVars, loadVars, splitVars, runVars, standaloneVars, hookVars, envVars, moreVars>>

NextBoundary == CheckBoundary

SpecBoundary == InitBoundary /\ [][NextBoundary]_vars

(***************************************************************************)
(* Specification SpecSplit: checkSplit applied to declared entries and an  *)
(* install location                                                        *)
(***************************************************************************)
InstallDir == <<"/", "i">>

InitSplit ==
    /\ sFiles \in SeqsUpTo(Entries, MaxEntries)
    /\ sInstallAt \in {<<>>, InstallDir}
    /\ sFs \in FileTrees
    /\ sOut = Pending
    /\ IdleNorm /\ IdleLoad /\ IdleBoundary /\ IdleRun /\ IdleStandalone /\ IdleHooks /\ IdleEnv /\ IdleMore

CheckSplit ==
    /\ sOut = Pending
    /\ sOut' = checkSplit(sFiles, sInstallAt, sFs)
    /\ UNCHANGED <<sFiles, sInstallAt, sFs, normVars, loadVars, boundaryVars, runVars, standaloneVars, hookVars, envVars, moreVars>>

NextSplit == CheckSplit

SpecSplit == InitSplit /\ [][NextSplit]_vars

(***************************************************************************)
(* Specification SpecLoad: loadConfig applied to one parsed city.toml.     *)
(* The contracts are: one polis_files entry drawn from every raw string,   *)
(* one hook whose file is drawn from every raw string, and every           *)
(* combination of a few entries, hooks, schema versions and read/parse     *)
(* outcomes.                                                               *)
(***************************************************************************)
F_env      == <<"e", "n", "v", ":", "A">>
F_envLower == <<"e", "n", "v", ":", "a">>
F_padded   == <<" ", "f", "a", "i", "l", " ">>
F_unknown  == <<"x">>

SchemaVersions ==
    {[present |-> FALSE, value |-> 0], [present |-> TRUE, value |-> 1], [present |-> TRUE, value |-> 2]}

Schema1 == [present |-> TRUE, value |-> 1]

Cmd == <<"x">>

RawConfig(readable, parses, schema, polis, hooks, check) ==
    [readable |-> readable, parses |-> parses, schema_version |-> schema,
     polis_files |-> polis, hook |-> hooks, standalone_check |-> check]

R_file      == <<"a">>
R_dir       == <<"d", "\\">>
R_glob      == <<" ", "*">>
R_embedded  == <<"a", "/", ".", ".", "/", "d">>
R_traversal == <<"a", "/", ".", ".", "/", ".", ".", "/", "d">>
R_absolute  == <<"/", "a">>

SomeRawPaths == {R_file, R_dir, R_glob, R_embedded, R_traversal, R_absolute}

SomeRawHooks ==
    {[File |-> f, Fallback |-> fb] : f \in {R_file, R_dir, R_embedded}, fb \in {F_defaults, F_padded}}

LoadPending == [err |-> "pending", cfg |-> NoConfig]

InitLoad ==
    /\ \/ \E p \in RawStrings : lRaw = RawConfig(TRUE, TRUE, Schema1, <<p>>, <<>>, <<>>)
       \/ \E p \in RawStrings :
              lRaw = RawConfig(TRUE, TRUE, Schema1, <<>>, <<[File |-> p, Fallback |-> F_defaults]>>, Cmd)
       \/ \E r \in BOOLEAN, ps \in BOOLEAN, sv \in SchemaVersions,
             pf \in SeqsUpTo(SomeRawPaths, MaxEntries), hk \in SeqsUpTo(SomeRawHooks, MaxHooks) :
              lRaw = RawConfig(r, ps, sv, pf, hk, <<" ", "x", " ">>)
    /\ lOut = LoadPending
    /\ IdleNorm /\ IdleBoundary /\ IdleSplit /\ IdleRun /\ IdleStandalone /\ IdleHooks /\ IdleEnv /\ IdleMore

LoadConfig ==
    /\ lOut = LoadPending
    /\ lOut' = loadConfig(lRaw)
    /\ UNCHANGED <<lRaw, normVars, boundaryVars, splitVars, runVars, standaloneVars, hookVars, envVars, moreVars>>

NextLoad == LoadConfig

SpecLoad == InitLoad /\ [][NextLoad]_vars

(***************************************************************************)
(* Specification SpecRun: Run(ctx, repoPath, opts), one action for each    *)
(* call Run makes, in the order of the code.                               *)
(***************************************************************************)
RunRawPaths == {R_file, R_dir, R_traversal}

RunRawHooks ==
    {[File |-> R_file, Fallback |-> fb] : fb \in {F_defaults, F_fail, F_env, F_envLower, F_unknown}}
        \cup {[File |-> R_dir, Fallback |-> F_fail]}

\* install trees of Run: a file or a symlink at "a", a directory at "d"
RunFileTrees ==
    {t \in FileTrees :
        /\ t.rootExists
        /\ t.obj[P_a] \in {"absent", "file", "symlink"}
        /\ t.obj[P_d] \in {"absent", "dir"}
        /\ t.obj[P_da] = "absent"}

\* the entries of a raw polis_files list that the normalizer accepts, normalized
Normalized(raw) ==
    {normalizePolisPath(raw[i]).val : i \in {k \in 1..Len(raw) : normalizePolisPath(raw[k]).err = ""}}

RunOracles(raw) == [{ignoreCandidate(e) : e \in Normalized(raw)} -> {"exit0", "exit1", "exit128"}]

\* city.toml as Run finds it: missing or unreadable, not valid TOML, or parsed
FileStates == {"unreadable", "bad-toml", "parsed"}

InitRun ==
    /\ \E repo \in {"abs-error", "not-git", "git"},
          file \in FileStates, sv \in SchemaVersions,
          pf \in SeqsUpTo(RunRawPaths, MaxRunEntries), hk \in SeqsUpTo(RunRawHooks, MaxHooks),
          check \in {<<>>, Cmd}, skip \in BOOLEAN, installAt \in {<<>>, InstallDir},
          fs \in RunFileTrees :
          \E oracle \in RunOracles(pf) :
              /\ file # "parsed" => (sv = Schema1 /\ pf = <<>> /\ hk = <<>>)
              /\ repo # "git" => (file = "parsed" /\ sv = Schema1 /\ hk = <<>>)
              /\ rIn = [repo   |-> repo,
                        raw    |-> RawConfig(file # "unreadable", file # "bad-toml", sv, pf, hk, check),
                        opts   |-> [InstallAt |-> installAt, SkipStandalone |-> skip],
                        oracle |-> oracle,
                        fs     |-> fs]
    /\ rPc = "start"
    /\ rCfg = NoConfig
    /\ rWorld = NoWorld
    /\ rResults = <<>>
    /\ rEffects = {}
    /\ rVerdict = NoVerdict
    /\ IdleNorm /\ IdleLoad /\ IdleBoundary /\ IdleSplit /\ IdleStandalone /\ IdleHooks /\ IdleEnv /\ IdleMore

notRun == <<normVars, loadVars, boundaryVars, splitVars, standaloneVars, hookVars, envVars, moreVars>>

\* filepath.Abs and ensureGitRepo
RunEnsureGitRepo ==
    /\ rPc = "start"
    /\ IF rIn.repo = "abs-error" THEN
           /\ rVerdict' = invalidVerdict("invalid repo path")
           /\ rPc' = "done"
           /\ UNCHANGED rEffects
       ELSE IF rIn.repo = "not-git" THEN
           /\ rVerdict' = invalidVerdict("invalid repo input")
           /\ rPc' = "done"
           /\ rEffects' = rEffects \cup {"git rev-parse"}
       ELSE
           /\ rPc' = "load"
           /\ rEffects' = rEffects \cup {"git rev-parse"}
           /\ UNCHANGED rVerdict
    /\ UNCHANGED <<rIn, rCfg, rWorld, rResults, notRun>>

RunLoadConfig ==
    /\ rPc = "load"
    /\ LET loaded == loadConfig(rIn.raw) IN
       /\ rEffects' = rEffects \cup {"os.ReadFile"}
       /\ IF loaded.err # "" THEN
              /\ rVerdict' = invalidVerdict(loaded.err)
              /\ rPc' = "done"
              /\ UNCHANGED rCfg
          ELSE
              /\ rCfg' = loaded.cfg
              /\ rPc' = "boundary"
              /\ UNCHANGED rVerdict
    /\ UNCHANGED <<rIn, rWorld, rResults, notRun>>

RunBoundary ==
    /\ rPc = "boundary"
    /\ rResults' = Append(rResults, timedCheck("boundary", checkBoundary(rCfg.PolisFiles, rIn.oracle)))
    /\ rEffects' = rEffects \cup
                   (IF boundaryQueries(rCfg.PolisFiles, rIn.oracle, 1) # <<>> THEN {"git check-ignore"} ELSE {})
    /\ rPc' = "standalone"
    /\ UNCHANGED <<rIn, rCfg, rWorld, rVerdict, notRun>>

\* the standalone check asked for nothing from the outside world
StandaloneSkips == rIn.opts.SkipStandalone \/ TrimSpace(rCfg.StandaloneCheck) = <<>>

RunStandalone ==
    /\ rPc = "standalone"
    /\ \E world \in PossibleWorlds :
          /\ StandaloneSkips => world = [mkdir |-> TRUE, clone |-> TRUE, exit |-> "zero", ctx |-> "none"]
          /\ rWorld' = IF StandaloneSkips THEN NoWorld ELSE world
          /\ rResults' = Append(rResults, timedCheck("standalone", checkStandalone(rCfg, rIn.opts, world)))
          /\ rEffects' = rEffects \cup standaloneEffects(rCfg, rIn.opts, world)
    /\ rPc' = "config-hooks"
    /\ UNCHANGED <<rIn, rCfg, rVerdict, notRun>>

hooksEffects(cfg, installAt) ==
    IF installAt # <<>> /\ \E i \in 1..Len(cfg.Hooks) : cfg.Hooks[i].Fallback = F_fail
    THEN {"os.Lstat"} ELSE {}

\* Run giving up on the remaining checks once a check has failed
RunHooksUnlessFailed ==
    /\ rPc = "config-hooks"
    /\ IF \E i \in 1..Len(rResults) : rResults[i].Status = StatusFail
       THEN /\ rPc' = "verdict"
            /\ UNCHANGED <<rResults, rEffects>>
       ELSE /\ rResults' = Append(rResults, timedCheck("config-hooks", checkHooks(rCfg, rIn.opts.InstallAt, rIn.fs)))
            /\ rEffects' = rEffects \cup hooksEffects(rCfg, rIn.opts.InstallAt)
            /\ rPc' = "split"
    /\ UNCHANGED <<rIn, rCfg, rWorld, rVerdict, notRun>>

RunHooks ==
    /\ rPc = "config-hooks"
    /\ rResults' = Append(rResults, timedCheck("config-hooks", checkHooks(rCfg, rIn.opts.InstallAt, rIn.fs)))
    /\ rEffects' = rEffects \cup hooksEffects(rCfg, rIn.opts.InstallAt)
    /\ rPc' = "split"
    /\ UNCHANGED <<rIn, rCfg, rWorld, rVerdict, notRun>>

splitEffects(polisFiles, installAt) ==
    IF installAt = <<>> THEN {}
    ELSE (IF \E i \in 1..Len(polisFiles) : hasGlobMeta(polisFiles[i]) THEN {"filepath.WalkDir"} ELSE {})
         \cup
         (IF \E i \in 1..Len(polisFiles) : ~hasGlobMeta(polisFiles[i]) THEN {"os.Lstat"} ELSE {})

RunSplit ==
    /\ rPc = "split"
    /\ rResults' = Append(rResults, timedCheck("split", checkSplit(rCfg.PolisFiles, rIn.opts.InstallAt, rIn.fs)))
    /\ rEffects' = rEffects \cup splitEffects(rCfg.PolisFiles, rIn.opts.InstallAt)
    /\ rPc' = "verdict"
    /\ UNCHANGED <<rIn, rCfg, rWorld, rVerdict, notRun>>

RunVerdict ==
    /\ rPc = "verdict"
    /\ rVerdict' = verdictOf(rResults)
    /\ rPc' = "done"
    /\ UNCHANGED <<rIn, rCfg, rWorld, rResults, rEffects, notRun>>

NextRun ==
    \/ RunEnsureGitRepo
    \/ RunLoadConfig
    \/ RunBoundary
    \/ RunStandalone
    \/ RunHooks
    \/ RunSplit
    \/ RunVerdict

SpecRun == InitRun /\ [][NextRun]_vars

(***************************************************************************)
(* Specification SpecStandalone: the standalone check as Run calls it,     *)
(* one action for each statement of checkStandalone and one for each thing *)
(* the outside world can do meanwhile: the deadline of cmdCtx expiring,    *)
(* the caller cancelling its context, the bash process or a child it       *)
(* started exiting.  exec.CommandContext kills the bash process alone      *)
(* (os.Process.Kill) once cmdCtx is done, and CombinedOutput returns only  *)
(* when the process has ended and no process holds the output pipe.        *)
(***************************************************************************)
defaultStandaloneTimeout == 120

\* an all-blank standalone_check, as a caller of checkStandalone may pass it
BlankCmd == <<" ">>

\* Options.StandaloneTimeout values, in seconds
Timeouts == {0 - 1, 0, 5}

NoSys ==
    [timeout |-> 0, tmp |-> "none", clone |-> "none", proc |-> "none", child |-> "none",
     ctxErr |-> "none", expired |-> FALSE, expiredRunning |-> FALSE, callerCancelled |-> FALSE]

InitStandalone ==
    /\ \E skip \in BOOLEAN, timeout \in Timeouts, check \in {<<>>, BlankCmd, Cmd}, forks \in BOOLEAN :
          tIn = [opts  |-> [SkipStandalone |-> skip, StandaloneTimeout |-> timeout],
                 cfg   |-> [NoConfig EXCEPT !.SchemaVersion = 1, !.StandaloneCheck = check],
                 forks |-> forks]
    /\ tPc = "run"
    /\ tSys = NoSys
    /\ tOut = Pending
    /\ IdleNorm /\ IdleLoad /\ IdleBoundary /\ IdleSplit /\ IdleRun /\ IdleHooks /\ IdleEnv /\ IdleMore

notStandalone == <<normVars, loadVars, boundaryVars, splitVars, runVars, hookVars, envVars, moreVars>>

\* Run: "if opts.StandaloneTimeout <= 0 { opts.StandaloneTimeout = defaultStandaloneTimeout }"
StandaloneDefaultTimeout ==
    /\ tPc = "run"
    /\ tSys' = [tSys EXCEPT !.timeout = IF tIn.opts.StandaloneTimeout <= 0
                                        THEN defaultStandaloneTimeout
                                        ELSE tIn.opts.StandaloneTimeout]
    /\ tPc' = "enter"
    /\ UNCHANGED <<tIn, tOut, notStandalone>>

\* a world in which every external step succeeds
CalmWorld == [mkdir |-> TRUE, clone |-> TRUE, exit |-> "zero", ctx |-> "none"]

\* the two skip tests at the head of checkStandalone
StandaloneEnter ==
    /\ tPc = "enter"
    /\ IF checkStandalone(tIn.cfg, tIn.opts, CalmWorld).status = StatusSkip
       THEN /\ tOut' = checkStandalone(tIn.cfg, tIn.opts, CalmWorld)
            /\ tPc' = "done"
       ELSE /\ tPc' = "mkdir"
            /\ UNCHANGED tOut
    /\ UNCHANGED <<tIn, tSys, notStandalone>>

\* os.MkdirTemp; a failure returns before the removal is deferred
StandaloneMkdirTemp ==
    /\ tPc = "mkdir"
    /\ \E ok \in BOOLEAN :
          IF ok
          THEN /\ tSys' = [tSys EXCEPT !.tmp = "exists"]
               /\ tPc' = "clone"
               /\ UNCHANGED tOut
          ELSE /\ tOut' = checkStandalone(tIn.cfg, tIn.opts, [CalmWorld EXCEPT !.mkdir = FALSE])
               /\ tPc' = "done"
               /\ UNCHANGED tSys
    /\ UNCHANGED <<tIn, notStandalone>>

\* the clone attempted before the removal of the temporary directory is deferred
StandaloneCloneBeforeDefer ==
    /\ tPc = "clone"
    /\ \E ok \in BOOLEAN :
          /\ tSys.callerCancelled => ~ok
          /\ IF ok
             THEN /\ tSys' = [tSys EXCEPT !.clone = "ok"]
                  /\ tPc' = "start"
                  /\ UNCHANGED tOut
             ELSE /\ tOut' = checkStandalone(tIn.cfg, tIn.opts, [CalmWorld EXCEPT !.clone = FALSE])
                  /\ tSys' = [tSys EXCEPT !.clone = "failed"]
                  /\ tPc' = "done"
    /\ UNCHANGED <<tIn, notStandalone>>

\* git clone under the caller's context; its failure return runs the deferred os.RemoveAll
StandaloneClone ==
    /\ tPc = "clone"
    /\ \E ok \in BOOLEAN :
          /\ tSys.callerCancelled => ~ok
          /\ IF ok
             THEN /\ tSys' = [tSys EXCEPT !.clone = "ok"]
                  /\ tPc' = "start"
                  /\ UNCHANGED tOut
             ELSE /\ tOut' = checkStandalone(tIn.cfg, tIn.opts, [CalmWorld EXCEPT !.clone = FALSE])
                  /\ tSys' = [tSys EXCEPT !.clone = "failed", !.tmp = "removed"]
                  /\ tPc' = "done"
    /\ UNCHANGED <<tIn, notStandalone>>

\* context.WithTimeout and the start of "bash -lc" inside cmd.CombinedOutput; a context
\* that is already done makes the start fail with the context's error
StandaloneStart ==
    /\ tPc = "start"
    /\ IF tSys.callerCancelled
       THEN /\ tSys' = [tSys EXCEPT !.ctxErr = "Canceled", !.proc = "not-started"]
            /\ tPc' = "returned"
       ELSE /\ tSys' = [tSys EXCEPT !.proc = "running",
                                    !.child = IF tIn.forks THEN "running" ELSE "none"]
            /\ tPc' = "wait"
    /\ UNCHANGED <<tIn, tOut, notStandalone>>

\* cmdCtx exists from context.WithTimeout until the deferred cancel()
cmdCtxLive == tPc \in {"wait", "returned"}

\* the timer of cmdCtx fires; a context that is already cancelled has stopped its timer
DeadlineExpires ==
    /\ cmdCtxLive
    /\ tSys.ctxErr = "none"
    /\ tSys' = [tSys EXCEPT !.expired = TRUE,
                            !.expiredRunning = (tSys.proc = "running"),
                            !.ctxErr = "DeadlineExceeded"]
    /\ UNCHANGED <<tIn, tPc, tOut, notStandalone>>

\* the caller of Run cancels the context it passed
CallerCancels ==
    /\ tPc \in {"mkdir", "clone", "start", "wait", "returned"}
    /\ ~tSys.callerCancelled
    /\ tSys' = [tSys EXCEPT !.callerCancelled = TRUE,
                            !.ctxErr = IF cmdCtxLive /\ tSys.ctxErr = "none" THEN "Canceled" ELSE tSys.ctxErr]
    /\ UNCHANGED <<tIn, tPc, tOut, notStandalone>>

\* the bash process ends by itself
CommandExits ==
    /\ tPc = "wait"
    /\ tSys.proc = "running"
    /\ \E status \in {"exited0", "exited1"} : tSys' = [tSys EXCEPT !.proc = status]
    /\ UNCHANGED <<tIn, tPc, tOut, notStandalone>>

\* a process that bash started, and that inherited the output pipe, ends by itself
ChildExits ==
    /\ tPc = "wait"
    /\ tSys.child = "running"
    /\ tSys' = [tSys EXCEPT !.child = "exited"]
    /\ UNCHANGED <<tIn, tPc, tOut, notStandalone>>

\* os/exec, once cmdCtx is done: os.Process.Kill on the bash process, and on nothing else
KillOnContextDone ==
    /\ tPc = "wait"
    /\ tSys.ctxErr # "none"
    /\ tSys.proc = "running"
    /\ tSys' = [tSys EXCEPT !.proc = "killed"]
    /\ UNCHANGED <<tIn, tPc, tOut, notStandalone>>

\* cmd.CombinedOutput returns: the process has ended and the output pipe is closed
CombinedOutputReturns ==
    /\ tPc = "wait"
    /\ tSys.proc # "running"
    /\ tSys.child # "running"
    /\ tPc' = "returned"
    /\ UNCHANGED <<tIn, tSys, tOut, notStandalone>>

\* what checkStandalone has in hand after CombinedOutput: err and cmdCtx.Err()
worldOf(sys) ==
    [mkdir |-> TRUE,
     clone |-> TRUE,
     exit  |-> IF sys.proc = "exited0" THEN "zero" ELSE IF sys.proc = "exited1" THEN "nonzero" ELSE "killed",
     ctx   |-> sys.ctxErr]

\* the tests after CombinedOutput, then the deferred cancel() and os.RemoveAll(tmpDir)
StandaloneClassify ==
    /\ tPc = "returned"
    /\ tOut' = checkStandalone(tIn.cfg, tIn.opts, worldOf(tSys))
    /\ tSys' = [tSys EXCEPT !.tmp = "removed"]
    /\ tPc' = "done"
    /\ UNCHANGED <<tIn, notStandalone>>

NextStandalone ==
    \/ StandaloneDefaultTimeout
    \/ StandaloneEnter
    \/ StandaloneMkdirTemp
    \/ StandaloneClone
    \/ StandaloneStart
    \/ DeadlineExpires
    \/ CallerCancels
    \/ CommandExits
    \/ ChildExits
    \/ KillOnContextDone
    \/ CombinedOutputReturns
    \/ StandaloneClassify

SpecStandalone == InitStandalone /\ [][NextStandalone]_vars

(***************************************************************************)
(* Specification SpecEnv: isolatedEnv applied to two host environments     *)
(* that differ in one variable.  A host environment maps a variable name   *)
(* to what os.LookupEnv returns for it.                                    *)
(***************************************************************************)
AllowedKeys == <<"PATH", "HOME", "TMPDIR", "LANG", "LC_ALL", "TERM">>

\* the variables of a host: the six keys and one that is none of them
HostKeys == AllowedKeys \o <<"GATE_SECRET">>

Unset == [ok |-> FALSE, val |-> ""]

LookupResults == {Unset, [ok |-> TRUE, val |-> ""], [ok |-> TRUE, val |-> "x"]}

HostEnvs == [Range(HostKeys) -> LookupResults]

\* the loop of isolatedEnv over keys[i..]
RECURSIVE envLoop(_, _, _, _)
envLoop(host, keys, i, env) ==
    IF i > Len(keys) THEN env
    ELSE envLoop(host, keys, i + 1,
                 IF host[keys[i]].ok /\ host[keys[i]].val # ""
                 THEN Append(env, <<keys[i], "=", host[keys[i]].val>>)
                 ELSE env)

\* an environment built from every variable of the host, as a command inherits it by default
isolatedEnvWholeHost(host) == envLoop(host, HostKeys, 1, <<>>)

isolatedEnv(host) == envLoop(host, AllowedKeys, 1, <<>>)

InitEnv ==
    /\ \E h \in HostEnvs, k \in Range(HostKeys), r \in LookupResults :
          eHosts = <<h, [h EXCEPT ![k] = r]>>
    /\ eEnvs = <<>>
    /\ IdleNorm /\ IdleLoad /\ IdleBoundary /\ IdleSplit /\ IdleRun /\ IdleStandalone /\ IdleHooks /\ IdleMore

\* "cmd.Env = isolatedEnv()" on each of the two hosts
IsolatedEnv ==
    /\ eEnvs = <<>>
    /\ eEnvs' = <<isolatedEnv(eHosts[1]), isolatedEnv(eHosts[2])>>
    /\ UNCHANGED <<eHosts, normVars, loadVars, boundaryVars, splitVars, runVars, standaloneVars, hookVars, moreVars>>

NextEnv == IsolatedEnv

SpecEnv == InitEnv /\ [][NextEnv]_vars

(***************************************************************************)
(* Specification SpecHooks: checkHooks applied to a loaded Config, with    *)
(* and without an install location.  The hooks name "a" or "d"; "a" is     *)
(* absent from the install location, or a file, a directory, a symlink or  *)
(* another kind of object there.                                           *)
(***************************************************************************)
F_envEmpty  == <<"e", "n", "v", ":">>
F_envDigit  == <<"e", "n", "v", ":", "1", "A">>
F_envLong   == <<"e", "n", "v", ":", "_", "A", "1">>
F_failUpper == <<"F", "a", "i", "l">>

Fallbacks == {F_defaults, F_fail, F_env, F_envLower, F_envEmpty, F_envDigit, F_envLong, F_failUpper, F_unknown, <<>>}

HookBlocks == {[File |-> f, Fallback |-> fb] : f \in {P_a, P_d}, fb \in Fallbacks}

HookEntries == {E_file, E_dirA, E_fileD, E_glob}

HookTrees ==
    {t \in FileTrees : t.rootExists /\ t.obj[P_d] = "absent" /\ t.obj[P_da] = "absent" /\ t.obj[P_a] # "unreadable-dir"}

\* two [[hook]] blocks, each with or without a problem of its own
HookPairs ==
    LET some == {[File |-> P_a, Fallback |-> F_defaults], [File |-> P_a, Fallback |-> F_fail],
                 [File |-> P_d, Fallback |-> F_fail], [File |-> P_a, Fallback |-> F_envLower],
                 [File |-> P_d, Fallback |-> F_unknown]}
    IN  {<<x, y>> : x \in some, y \in some}

InitHooks ==
    /\ \E pf \in SeqsUpTo(HookEntries, MaxEntries), hk \in SeqsUpTo(HookBlocks, MaxHooks) \cup HookPairs :
          hCfg = [NoConfig EXCEPT !.SchemaVersion = 1, !.PolisFiles = pf, !.Hooks = hk]
    /\ hInstallAt \in {<<>>, InstallDir}
    /\ hFs \in HookTrees
    /\ hOut = Pending
    /\ IdleNorm /\ IdleLoad /\ IdleBoundary /\ IdleSplit /\ IdleRun /\ IdleStandalone /\ IdleEnv /\ IdleMore

CheckHooks ==
    /\ hOut = Pending
    /\ hOut' = checkHooks(hCfg, hInstallAt, hFs)
    /\ UNCHANGED <<hCfg, hInstallAt, hFs, normVars, loadVars, boundaryVars, splitVars, runVars, standaloneVars, envVars, moreVars>>

NextHooks == CheckHooks

SpecHooks == InitHooks /\ [][NextHooks]_vars

(***************************************************************************)
(* Properties                                                              *)
(***************************************************************************)
\* the answer of the git oracle for the probe path of the i-th declared entry
Answer(i) == bOracle[ignoreCandidate(bFiles[i])]

BoundaryDone == bOut # Pending

\* C1: checkBoundary returns pass if and only if the oracle answers "ignored"
\* (exit status 0) for the probe path of every declared entry, and an oracle
\* error on any entry makes the result fail, never pass and never skip.
C1_BoundaryPassIffAllIgnored ==
    BoundaryDone =>
        /\ bOut.status = StatusPass <=> \A i \in 1..Len(bFiles) : Answer(i) = "exit0"
        /\ (\E i \in 1..Len(bFiles) : Answer(i) \in {"exit128", "cannot-run"})
               => bOut.status = StatusFail
        /\ bOut.status # StatusSkip

\* an ignored entry followed by an entry whose query cannot be run: the check failed
C1_Witness ==
    /\ BoundaryDone
    /\ Len(bFiles) = 2
    /\ Answer(1) = "exit0"
    /\ Answer(2) \in {"exit128", "cannot-run"}
    /\ bOut.status = StatusFail

\* the segments of a string, as strings.Split(s, "/") yields them
Segments(s) == SplitSlash(s)

HasDotDotSegment(s) == \E i \in 1..Len(Segments(s)) : Segments(s)[i] = <<".", ".">>

\* C2: normalizePolisPath fails for every input that has ".." as a path
\* segment at any position (leading, embedded or trailing).
C2_DotDotSegmentAlwaysRejected ==
    (nOp = "polis" /\ HasDotDotSegment(ReplaceBackslash(nIn))) => nOut.err # ""

SplitDone == sOut # Pending /\ sInstallAt # <<>>

ExistsAt(fs, p) == fs.rootExists /\ p \in FsPaths /\ fs.obj[p] # "absent"

\* the objects of the install location that could satisfy a declared entry
Candidates(fs, entry) ==
    IF hasGlobMeta(entry) THEN {p \in FsPaths : ExistsAt(fs, p) /\ matchGlobPattern(entry, p)}
    ELSE {p \in {TrimSuffix(entry, <<"/">>)} : ExistsAt(fs, p)}

\* C4: with an install location, an entry of any kind (file, directory or
\* glob) whose every candidate object is a symlink makes checkSplit fail.
C4_SymlinkNeverSatisfiesPresence ==
    SplitDone =>
        ((\E i \in 1..Len(sFiles) :
              \A p \in Candidates(sFs, sFiles[i]) : sFs.obj[p] = "symlink")
          => sOut.status = StatusFail)

\* C9 (as claimed): whenever checkBoundary returns fail, its detail names
\* every declared entry that the oracle answers "not ignored" (exit status 1).
C9_FailNamesEveryNotIgnored ==
    (BoundaryDone /\ bOut.status = StatusFail) =>
        \A i \in 1..Len(bFiles) : Answer(i) = "exit1" => bFiles[i] \in Range(bOut.items)

\* C9 (amended): whenever checkBoundary returns fail and no oracle query
\* returned an error, its detail names every declared entry that the oracle
\* answers "not ignored".
C9_FailWithoutErrorNamesEveryNotIgnored ==
    (/\ BoundaryDone
     /\ bOut.status = StatusFail
     /\ \A i \in 1..Len(bFiles) : Answer(i) \in {"exit0", "exit1"}) =>
        \A i \in 1..Len(bFiles) : Answer(i) = "exit1" => bFiles[i] \in Range(bOut.items)

\* two different entries, both not ignored, both named in the detail of the failure
C9_Witness ==
    /\ BoundaryDone
    /\ bOut.status = StatusFail
    /\ Len(bFiles) = 2
    /\ bFiles[1] # bFiles[2]
    /\ Answer(1) = "exit1" /\ Answer(2) = "exit1"
    /\ bOut.items = bFiles

IsGlobEntry(e) == hasGlobMeta(e)
IsDirEntry(e)  == ~hasGlobMeta(e) /\ HasSuffix(e, <<"/">>)
IsFileEntry(e) == ~hasGlobMeta(e) /\ ~HasSuffix(e, <<"/">>)

\* presence by kind, as the claim states it
PresentAsClaimed(fs, e) ==
    IF IsGlobEntry(e) THEN \E p \in FsPaths : ExistsAt(fs, p) /\ matchGlobPattern(e, p)
    ELSE IF IsDirEntry(e) THEN
        LET p == TrimSuffix(e, <<"/">>)
        IN  ExistsAt(fs, p) /\ fs.obj[p] \in {"dir", "unreadable-dir"}
    ELSE ExistsAt(fs, e) /\ fs.obj[e] = "file"

\* presence by kind, a glob entry being found only by the walk: the matching
\* path is reached before the walk meets a directory it cannot read
PresentByWalk(fs, e) ==
    IF IsGlobEntry(e) THEN
        \E k \in 1..Len(WalkOrder) :
            /\ ExistsAt(fs, WalkOrder[k])
            /\ matchGlobPattern(e, WalkOrder[k])
            /\ \A j \in 1..(k - 1) : fs.obj[WalkOrder[j]] # "unreadable-dir"
    ELSE PresentAsClaimed(fs, e)

LoadedOk == lOut.err = ""

SafeRelative(e) == e # <<>> /\ e[1] # "/" /\ ~HasDotDotSegment(e)

RunDone == rPc = "done"

\* city.toml is unreadable, unparsable, without schema_version, of another
\* schema version, or holds a path that fails normalization
ContractInvalid ==
    \/ ~rIn.raw.readable
    \/ ~rIn.raw.parses
    \/ ~rIn.raw.schema_version.present
    \/ rIn.raw.schema_version.value # 1
    \/ \E i \in 1..Len(rIn.raw.polis_files) : normalizePolisPath(rIn.raw.polis_files[i]).err # ""
    \/ \E i \in 1..Len(rIn.raw.hook) : normalizeHookPath(rIn.raw.hook[i].File).err # ""

ValidInput == rIn.repo = "git" /\ ~ContractInvalid

Statuses(v) == {v.Checks[i].Status : i \in 1..Len(v.Checks)}

\* C5: for a valid repository and contract the verdict follows from the four
\* check statuses alone: a fail gives status fail and exit code 1, otherwise a
\* skip gives status warn and exit code 2, otherwise status pass and exit code 0.
C5_VerdictFromStatuses ==
    (RunDone /\ ValidInput) =>
        /\ Len(rVerdict.Checks) = 4
        /\ IF StatusFail \in Statuses(rVerdict)
           THEN rVerdict.Status = "fail" /\ rVerdict.ExitCode = 1
           ELSE IF StatusSkip \in Statuses(rVerdict)
           THEN rVerdict.Status = "warn" /\ rVerdict.ExitCode = 2
           ELSE rVerdict.Status = "pass" /\ rVerdict.ExitCode = 0

\* a run whose checks failed once and were skipped once: fail takes precedence
C5_Witness ==
    /\ RunDone /\ ValidInput
    /\ StatusFail \in Statuses(rVerdict)
    /\ StatusSkip \in Statuses(rVerdict)
    /\ rVerdict.ExitCode = 1

\* the external operations that only the four checks perform
CheckEffects == {"git check-ignore", "os.MkdirTemp", "git clone", "bash -lc", "os.Lstat", "filepath.WalkDir"}

\* C6: when the repository is not a git work tree or the contract is invalid,
\* Run returns exit code 3 with exactly one check result, named contract with
\* status fail, and none of the four checks is executed.
C6_InvalidShortCircuits ==
    (RunDone /\ (rIn.repo = "not-git" \/ (rIn.repo = "git" /\ ContractInvalid))) =>
        /\ rVerdict.ExitCode = 3
        /\ Len(rVerdict.Checks) = 1
        /\ rVerdict.Checks[1].Name = "contract"
        /\ rVerdict.Checks[1].Status = StatusFail
        /\ rResults = <<>>
        /\ rEffects \cap CheckEffects = {}

\* a contract of schema version 2, given with an install location and a
\* self-check command, was refused
C6_Witness ==
    /\ RunDone
    /\ rIn.repo = "git"
    /\ rIn.raw.schema_version = [present |-> TRUE, value |-> 2]
    /\ rIn.raw.polis_files = <<R_file>>
    /\ rIn.raw.standalone_check = Cmd /\ ~rIn.opts.SkipStandalone
    /\ rIn.opts.InstallAt # <<>>
    /\ rVerdict.ExitCode = 3

CheckNamed(name) ==
    rVerdict.Checks[CHOOSE i \in 1..Len(rVerdict.Checks) : rVerdict.Checks[i].Name = name]

\* C7: a check result is skip only for the standalone check when the skip
\* flag was passed or no command is declared, and for the split check when no
\* install location was given; the boundary and config-hooks checks never
\* skip, and an error inside a check gives fail.
C7_SkipOnlyWhenNotApplicable ==
    RunDone =>
        /\ \A i \in 1..Len(rVerdict.Checks) :
               rVerdict.Checks[i].Status = StatusSkip =>
                   \/ /\ rVerdict.Checks[i].Name = "standalone"
                      /\ rIn.opts.SkipStandalone \/ TrimSpace(rIn.raw.standalone_check) = <<>>
                   \/ /\ rVerdict.Checks[i].Name = "split"
                      /\ rIn.opts.InstallAt = <<>>
        /\ ValidInput =>
               /\ (\E e \in DOMAIN rIn.oracle : rIn.oracle[e] = "exit128")
                      => CheckNamed("boundary").Status = StatusFail
               /\ (rWorld.exit # "not-run" /\ (~rWorld.mkdir \/ ~rWorld.clone \/ rWorld.exit # "zero"))
                      => CheckNamed("standalone").Status = StatusFail
               /\ (/\ rIn.opts.InstallAt # <<>>
                   /\ \E i \in 1..Len(rCfg.PolisFiles) :
                          Lstat(rIn.fs, TrimSuffix(rCfg.PolisFiles[i], <<"/">>)) = "absent")
                      => CheckNamed("split").Status = StatusFail
               /\ (/\ rIn.opts.InstallAt # <<>>
                   /\ \E i \in 1..Len(rCfg.Hooks) :
                          /\ rCfg.Hooks[i].Fallback = F_fail
                          /\ Lstat(rIn.fs, rCfg.Hooks[i].File) = "absent")
                      => CheckNamed("config-hooks").Status = StatusFail

\* nothing declared and nothing to run: boundary and config-hooks pass,
\* standalone and split are skipped
C7_Witness ==
    /\ RunDone /\ ValidInput
    /\ rCfg.PolisFiles = <<>> /\ rCfg.Hooks = <<>>
    /\ rIn.opts.InstallAt = <<>>
    /\ CheckNamed("boundary").Status = StatusPass
    /\ CheckNamed("config-hooks").Status = StatusPass
    /\ CheckNamed("standalone").Status = StatusSkip
    /\ CheckNamed("split").Status = StatusSkip

\* C8: for a valid repository and contract Run returns exactly the results
\* boundary, standalone, config-hooks and split, in that order, and each
\* result is what its check yields from the contract, the options and the
\* outside world, whatever the other checks reported.
C8_FourIndependentResults ==
    (RunDone /\ ValidInput) =>
        /\ [i \in 1..Len(rVerdict.Checks) |-> rVerdict.Checks[i].Name]
               = <<"boundary", "standalone", "config-hooks", "split">>
        /\ rVerdict.Checks[1].Status = checkBoundary(rCfg.PolisFiles, rIn.oracle).status
        /\ rVerdict.Checks[2].Status =
               checkStandalone(rCfg, rIn.opts,
                               IF rWorld.exit = "not-run" THEN [rWorld EXCEPT !.exit = "zero"] ELSE rWorld).status
        /\ rVerdict.Checks[3].Status = checkHooks(rCfg, rIn.opts.InstallAt, rIn.fs).status
        /\ rVerdict.Checks[4].Status = checkSplit(rCfg.PolisFiles, rIn.opts.InstallAt, rIn.fs).status

\* the boundary and standalone checks failed, the two later checks still ran and passed
C8_Witness ==
    /\ RunDone /\ ValidInput
    /\ Len(rVerdict.Checks) = 4
    /\ rVerdict.Checks[1].Status = StatusFail
    /\ rVerdict.Checks[2].Status = StatusFail
    /\ rVerdict.Checks[3].Status = StatusPass /\ Len(rCfg.Hooks) = 1
    /\ rVerdict.Checks[4].Status = StatusPass

\* checkSplit has returned, with or without an install location
SplitReturned == sOut # Pending

\* C11: checkSplit returns skip if and only if no install location was supplied;
\* without one it never returns pass, even when nothing is declared, and with one
\* it returns only pass or fail.
C11_SplitSkipIffNoInstallLocation ==
    SplitReturned =>
        /\ (sOut.status = StatusSkip) <=> (sInstallAt = <<>>)
        /\ sInstallAt = <<>> => sOut.status # StatusPass
        /\ sInstallAt # <<>> => sOut.status \in {StatusPass, StatusFail}

\* nothing declared and no install location: the check was skipped, not passed
C11_Witness ==
    /\ SplitReturned
    /\ sFiles = <<>>
    /\ sInstallAt = <<>>
    /\ sOut.status = StatusSkip

StandaloneDone == tPc = "done"

\* the caller asked to skip, or the declared command is empty after trimming
SkipRequested == tIn.opts.SkipStandalone \/ TrimSpace(tIn.cfg.StandaloneCheck) = <<>>

\* C12: checkStandalone returns skip if and only if the caller set SkipStandalone
\* or the declared standalone_check is empty after trimming; then the status is
\* not pass, no temporary directory is created, no clone is made and no command
\* is run.
C12_StandaloneSkipIffRequestedOrEmpty ==
    StandaloneDone =>
        /\ (tOut.status = StatusSkip) <=> SkipRequested
        /\ SkipRequested =>
              /\ tOut.status # StatusPass
              /\ tSys.tmp = "none"
              /\ tSys.clone = "none"
              /\ tSys.proc = "none"

\* an all-blank command without --skip-standalone: skipped, and nothing was touched
C12_Witness ==
    /\ StandaloneDone
    /\ ~tIn.opts.SkipStandalone
    /\ tIn.cfg.StandaloneCheck = BlankCmd
    /\ tOut.status = StatusSkip
    /\ tSys.tmp = "none"

\* the duration Run hands to context.WithTimeout
EffectiveTimeout ==
    IF tIn.opts.StandaloneTimeout <= 0 THEN defaultStandaloneTimeout ELSE tIn.opts.StandaloneTimeout

\* C13: if the self-check command has not exited when the deadline expires
\* (Options.StandaloneTimeout, 120s when the option is zero or negative), the
\* standalone check returns fail with the detail "timed out", never the generic
\* "standalone_check failed" detail and never pass.
C13_DeadlineReportedAsTimeout ==
    /\ tPc \notin {"idle", "run"} => tSys.timeout = EffectiveTimeout
    /\ (StandaloneDone /\ tSys.expiredRunning) =>
          /\ tOut.status = StatusFail
          /\ tOut.msg = "standalone_check timed out"

\* no timeout given: the 120s deadline expired on a running command, which was then killed
C13_Witness ==
    /\ StandaloneDone
    /\ tIn.opts.StandaloneTimeout = 0
    /\ tSys.timeout = 120
    /\ tSys.expiredRunning
    /\ tSys.proc = "killed"
    /\ tOut.msg = "standalone_check timed out"

\* C14: whenever the clone succeeds and the self-check command itself exits
\* with status zero, the standalone check returns pass, under every interleaving
\* of the command's exit with the deadline timer.
C14_ZeroExitAlwaysPasses ==
    (StandaloneDone /\ tSys.clone = "ok" /\ tSys.proc = "exited0") => tOut.status = StatusPass

C16_KillTerminatesChildrenAndReturns ==
    (tPc = "wait" /\ tSys.ctxErr # "none" /\ tSys.proc = "killed") =>
        /\ tSys.child # "running"
        /\ ENABLED CombinedOutputReturns

EnvDone == eEnvs # <<>>

\* every entry of env is KEY=value for one of the six keys, with the host's non-empty value
OnlyAllowed(host, env) ==
    \A i \in 1..Len(env) :
        /\ env[i][1] \in Range(AllowedKeys)
        /\ env[i][2] = "="
        /\ host[env[i][1]].ok
        /\ env[i][3] = host[env[i][1]].val
        /\ env[i][3] # ""

\* C17: the environment given to the self-check command contains only variables
\* named PATH, HOME, TMPDIR, LANG, LC_ALL or TERM, each carrying the host's
\* non-empty value; two host environments that agree on those six variables
\* produce the same command environment, whatever other variables they contain.
C17_EnvOnlyFromAllowlist ==
    EnvDone =>
        /\ OnlyAllowed(eHosts[1], eEnvs[1])
        /\ OnlyAllowed(eHosts[2], eEnvs[2])
        /\ (\A k \in Range(AllowedKeys) : eHosts[1][k] = eHosts[2][k]) => eEnvs[1] = eEnvs[2]

\* two hosts that differ only in the secret: both commands get the same PATH and nothing else
C17_Witness ==
    /\ EnvDone
    /\ eHosts[1]["GATE_SECRET"] = Unset
    /\ eHosts[2]["GATE_SECRET"] = [ok |-> TRUE, val |-> "x"]
    /\ eEnvs[1] = <<<<"PATH", "=", "x">>>>
    /\ eEnvs[2] = eEnvs[1]

HooksDone == hOut # Pending

\* the problems checkHooks reported for the named hook file
ProblemsOf(file) == {hOut.items[i] : i \in {k \in 1..Len(hOut.items) : hOut.items[k].hook = file}}

\* a declared path equals the file, or is the file followed by one "/"
ListedAsDeclared(file) ==
    \E k \in 1..Len(hCfg.PolisFiles) :
        hCfg.PolisFiles[k] = file \/ hCfg.PolisFiles[k] = file \o <<"/">>

\* C18: checkHooks reports a hook as not listed (and the check fails) exactly
\* when no declared path equals the hook's file after one trailing "/" is
\* stripped from the declared path; a directory-style entry name/ satisfies a
\* hook on name, and an unlisted hook fails the check whatever its fallback.
C18_NotListedIffNoDeclaredPath ==
    HooksDone =>
        \A i \in 1..Len(hCfg.Hooks) :
            /\ (\E p \in ProblemsOf(hCfg.Hooks[i].File) : p.problem = "not listed in polis_files")
                   <=> ~ListedAsDeclared(hCfg.Hooks[i].File)
            /\ ~ListedAsDeclared(hCfg.Hooks[i].File) => hOut.status = StatusFail

\* the hook on "a" is satisfied by the directory-style entry "a/": the check passed
C18_Witness ==
    /\ HooksDone
    /\ hCfg.PolisFiles = <<E_dirA>>
    /\ hCfg.Hooks = <<[File |-> P_a, Fallback |-> F_defaults]>>
    /\ hOut.status = StatusPass

UpperLetters ==
    {"A", "B", "C", "D", "E", "F", "G", "H", "I", "J", "K", "L", "M",
     "N", "O", "P", "Q", "R", "S", "T", "U", "V", "W", "X", "Y", "Z"}

Digits == {"0", "1", "2", "3", "4", "5", "6", "7", "8", "9"}

\* NAME matches [A-Z_][A-Z0-9_]*
IsEnvName(name) ==
    /\ name # <<>>
    /\ name[1] \in UpperLetters \cup {"_"}
    /\ \A i \in 2..Len(name) : name[i] \in UpperLetters \cup Digits \cup {"_"}

\* the three recognized forms of a fallback
Recognized(fb) ==
    \/ fb = <<"d", "e", "f", "a", "u", "l", "t", "s">>
    \/ fb = <<"f", "a", "i", "l">>
    \/ /\ Len(fb) >= 4
       /\ SubSeq(fb, 1, 4) = <<"e", "n", "v", ":">>
       /\ IsEnvName(SubSeq(fb, 5, Len(fb)))

\* C19: a hook's fallback is accepted only if it is exactly defaults, exactly
\* fail, or env:NAME where NAME matches [A-Z_][A-Z0-9_]*; every other fallback
\* makes the hooks check fail with an invalid-fallback detail naming the hook.
C19_FallbackForms ==
    HooksDone =>
        \A i \in 1..Len(hCfg.Hooks) :
            /\ (\E p \in ProblemsOf(hCfg.Hooks[i].File) :
                    /\ p.problem \in {"has invalid fallback", "has invalid env fallback"}
                    /\ p.fallback = hCfg.Hooks[i].Fallback)
                   <=> ~Recognized(hCfg.Hooks[i].Fallback)
            /\ ~Recognized(hCfg.Hooks[i].Fallback) => hOut.status = StatusFail

\* a listed hook with the fallback env:a: the check failed on the lowercase name
C19_Witness ==
    /\ HooksDone
    /\ hCfg.PolisFiles = <<E_file>>
    /\ hCfg.Hooks = <<[File |-> P_a, Fallback |-> F_envLower]>>
    /\ hOut.status = StatusFail
    /\ hOut.items = <<InvalidFallback(hCfg.Hooks[1], "has invalid env fallback")>>

\* the problems checkHooks reports for a fallback of fail
FailFallbackProblems ==
    {"fallback=fail requires --install-at",
     "fallback=fail but file missing at install path",
     "fallback=fail but install path is symlink"}

\* C20: for a hook whose fallback is fail, checkHooks reports no problem for the
\* fallback only if an install location was supplied and the hook's file exists
\* there as a regular file that is not a symlink; in every other case (no install
\* location, file missing, symlink, or a non-regular object such as a directory)
\* the hooks check fails.
C20_FailNeedsRegularFile ==
    HooksDone =>
        \A i \in 1..Len(hCfg.Hooks) :
            hCfg.Hooks[i].Fallback = F_fail =>
                LET present == hInstallAt # <<>> /\ Lstat(hFs, hCfg.Hooks[i].File) = "file" IN
                /\ (\A p \in ProblemsOf(hCfg.Hooks[i].File) : p.problem \notin FailFallbackProblems) => present
                /\ ~present => hOut.status = StatusFail

\* the number of problems the i-th hook has: its file not declared, and one for its fallback
\* (not a recognized form; fail without an install location, or with the file missing or a symlink)
Violations(i) ==
    LET h == hCfg.Hooks[i] IN
    (IF ~ListedAsDeclared(h.File) THEN 1 ELSE 0)
    + (IF ~Recognized(h.Fallback) THEN 1
       ELSE IF h.Fallback = F_fail /\ (hInstallAt = <<>> \/ Lstat(hFs, h.File) \in {"absent", "symlink"}) THEN 1
       ELSE 0)

RECURSIVE ViolationsUpTo(_)
ViolationsUpTo(n) == IF n = 0 THEN 0 ELSE ViolationsUpTo(n - 1) + Violations(n)

\* C21: checkHooks examines every declared hook even after a problem has been
\* found: when it fails, the detail contains an item for every violation of
\* every hook (file not declared, invalid fallback, fail fallback without install
\* location, missing or symlinked file), not only the first one encountered.
C21_EveryHookProblemReported ==
    HooksDone =>
        /\ Len(hOut.items) = ViolationsUpTo(Len(hCfg.Hooks))
        /\ \A i \in 1..Len(hCfg.Hooks) :
               LET h == hCfg.Hooks[i]
                   reported == {p.problem : p \in ProblemsOf(h.File)}
               IN  /\ ~ListedAsDeclared(h.File) => "not listed in polis_files" \in reported
                   /\ ~Recognized(h.Fallback)
                          => reported \cap {"has invalid fallback", "has invalid env fallback"} # {}
                   /\ (h.Fallback = F_fail /\ hInstallAt = <<>>)
                          => "fallback=fail requires --install-at" \in reported
                   /\ (h.Fallback = F_fail /\ hInstallAt # <<>> /\ Lstat(hFs, h.File) = "absent")
                          => "fallback=fail but file missing at install path" \in reported
                   /\ (h.Fallback = F_fail /\ hInstallAt # <<>> /\ Lstat(hFs, h.File) = "symlink")
                          => "fallback=fail but install path is symlink" \in reported

\* two hooks, three problems: the first is undeclared and lacks its file, the second has an unknown fallback
C21_Witness ==
    /\ HooksDone
    /\ hCfg.PolisFiles = <<E_fileD>>
    /\ hCfg.Hooks = <<[File |-> P_a, Fallback |-> F_fail], [File |-> P_d, Fallback |-> F_unknown]>>
    /\ hInstallAt # <<>>
    /\ Lstat(hFs, P_a) = "absent"
    /\ hOut.status = StatusFail
    /\ Len(hOut.items) = 3

(***************************************************************************)
(* Specification SpecMatch: the glob matcher applied to one declared       *)
(* pattern, as hasGlobMatch applies it to the slash-separated relative     *)
(* path of a walked entry and as the boundary probe synthesizes a path     *)
(* from it.                                                                *)
(***************************************************************************)
MaxPatSegs == 3      \* most segments of a declared pattern
MaxPathSegs == 4     \* most segments of a relative path

PatternSegments == {<<"*", "*">>, <<"*">>, <<"a">>, <<"?", "b">>, <<"[", "a", "b", "]">>}
PathSegments == {<<"a">>, <<"a", "b">>}

\* declared patterns as the normalizer leaves them: clean, perhaps with a directory marker
Patterns ==
    {JoinStr(segs, <<"/">>) : segs \in SeqsUpTo(PatternSegments, MaxPatSegs) \ {<<>>}}
        \cup {JoinStr(segs, <<"/">>) \o <<"/">> : segs \in SeqsUpTo(PatternSegments, MaxPatSegs - 1) \ {<<>>}}

\* filepath.ToSlash(filepath.Rel(root, p)) of a walked entry, and the empty path
RelPaths == {JoinStr(segs, <<"/">>) : segs \in SeqsUpTo(PathSegments, MaxPathSegs)}

InitMatch ==
    /\ mP \in Patterns
    /\ mR \in RelPaths
    /\ mOut = Pending
    /\ IdleCity /\ IdleKind /\ IdlePair /\ IdleRecord

MatchGlobPattern ==
    /\ mOut = Pending
    /\ mOut' = [op |-> "match", matched |-> matchGlobPattern(mP, mR)]
    /\ UNCHANGED <<mP, mR, cityVars, kindVars, pairVars, recordVars>>

\* the boundary probe of a glob entry, given back to the matcher
SynthesizeAndMatch ==
    /\ mOut = Pending
    /\ hasGlobMeta(mP)
    /\ mOut' = [op |-> "synthesize", path |-> synthesizePathFromPattern(mP),
                matched |-> matchGlobPattern(mP, synthesizePathFromPattern(mP))]
    /\ UNCHANGED <<mP, mR, cityVars, kindVars, pairVars, recordVars>>

NextMatch == MatchGlobPattern \/ SynthesizeAndMatch

SpecMatch == InitMatch /\ [][NextMatch]_vars

MatchDone == mOut # Pending /\ mOut.op = "match"
SynthDone == mOut # Pending /\ mOut.op = "synthesize"

\* what one pattern segment other than "**" matches: "*" any run of characters of the
\* segment, "?" one character, a bracket class one of its characters, any other
\* character itself
RECURSIVE GlobSegment(_, _)
GlobSegment(p, s) ==
    IF p = <<>> THEN s = <<>>
    ELSE IF Head(p) = "*" THEN
        \E k \in 0..Len(s) : GlobSegment(Tail(p), SubSeq(s, k + 1, Len(s)))
    ELSE IF Head(p) = "?" THEN
        s # <<>> /\ GlobSegment(Tail(p), Tail(s))
    ELSE IF Head(p) = "[" THEN
        LET close == CHOOSE i \in 2..Len(p) : p[i] = "]" /\ \A j \in 2..(i - 1) : p[j] # "]"
        IN  /\ s # <<>>
            /\ Head(s) \in {p[i] : i \in 2..(close - 1)}
            /\ GlobSegment(SubSeq(p, close + 1, Len(p)), Tail(s))
    ELSE s # <<>> /\ Head(s) = Head(p) /\ GlobSegment(Tail(p), Tail(s))

\* pattern segments ps and path segments rs can be aligned, exhausted together
RECURSIVE Aligned(_, _)
Aligned(ps, rs) ==
    IF ps = <<>> THEN rs = <<>>
    ELSE IF Head(ps) = <<"*", "*">> THEN
        \E k \in 0..Len(rs) : Aligned(Tail(ps), SubSeq(rs, k + 1, Len(rs)))
    ELSE rs # <<>> /\ GlobSegment(Head(ps), Head(rs)) /\ Aligned(Tail(ps), Tail(rs))

SegmentsOfPattern(p) == SelectSeq(SplitSlash(p), LAMBDA x : x # <<>>)
SegmentsOfPath(r) == SelectSeq(SplitSlash(r), LAMBDA x : x # <<>> /\ x # <<".">>)

P_aStarStarA == <<"a", "/", "*", "*", "/", "a">>

\* C22: matchGlobPattern(P, R) is true exactly when the non-empty, non-"." segments of R
\* can be aligned with the segments of P, every segment other than "**" matching one path
\* segment and every "**" a run of zero or more segments, both exhausted together; so
\* "**" alone matches every path, the empty one included, and a/**/a matches a/a, a/ab/a
\* and a/ab/ab/a but not a/ab.
C22_MatchIsAlignment ==
    MatchDone =>
        /\ mOut.matched <=> Aligned(SegmentsOfPattern(mP), SegmentsOfPath(mR))
        /\ mP = <<"*", "*">> => mOut.matched
        /\ (mP = P_aStarStarA /\ mR \in {<<"a", "/", "a">>, <<"a", "/", "a", "b", "/", "a">>,
                                         <<"a", "/", "a", "b", "/", "a", "b", "/", "a">>}) => mOut.matched
        /\ (mP = P_aStarStarA /\ mR = <<"a", "/", "a", "b">>) => ~mOut.matched

C22_Witness ==
    /\ MatchDone
    /\ mP = P_aStarStarA
    /\ mR = <<"a", "/", "a", "b", "/", "a", "b", "/", "a">>
    /\ mOut.matched

\* C23 (refuted): for every glob pattern P the normalizer accepts, bracket classes and
\* patterns ending in "/" included, the matcher reports a match of P against the path
\* synthesized from P.
C23_SynthesizedPathMatches ==
    (SynthDone /\ normalizePolisPath(mP).err = "") => mOut.matched

NormalizedTwice == nOp = "polis-again"

EndsInSeparator(s) == s # <<>> /\ s[Len(s)] \in {"/", "\\"}

\* C24 (refuted): for every input that normalizePolisPath accepts, normalizing the result
\* again succeeds and returns the same string; an accepted input that ends in a separator
\* yields a result that ends in "/", unchanged by the second normalization.
C24_NormalizeIdempotent ==
    NormalizedTwice =>
        /\ nOut.err = ""
        /\ nOut.val = nOut.first
        /\ EndsInSeparator(nIn) => HasSuffix(nOut.first, <<"/">>)

(***************************************************************************)
(* Specification SpecPair: two calls of Run, each on an input of its own,  *)
(* and the two verdicts they return.  Run is the composition of the steps  *)
(* of SpecRun.                                                             *)
(***************************************************************************)
runChecks(cfg, in, world) ==
    <<timedCheck("boundary", checkBoundary(cfg.PolisFiles, in.oracle)),
      timedCheck("standalone", checkStandalone(cfg, in.opts, world)),
      timedCheck("config-hooks", checkHooks(cfg, in.opts.InstallAt, in.fs)),
      timedCheck("split", checkSplit(cfg.PolisFiles, in.opts.InstallAt, in.fs))>>

runLoaded(loaded, in, world) ==
    IF loaded.err # "" THEN invalidVerdict(loaded.err)
    ELSE verdictOf(runChecks(loaded.cfg, in, world))

Run(in, world) ==
    IF in.repo = "abs-error" THEN invalidVerdict("invalid repo path")
    ELSE IF in.repo = "not-git" THEN invalidVerdict("invalid repo input")
    ELSE runLoaded(loadConfig(in.raw), in, world)

PairTrees ==
    {t \in RunFileTrees : t.obj[P_d] = "absent" /\ t.obj[P_a] \in {"absent", "file"}}

PairHooks == {<<>>, <<[File |-> R_file, Fallback |-> F_fail]>>}

\* the inputs of one call: repository, city.toml, options, git oracle, install tree
PairInputs ==
    UNION {{[repo   |-> repo,
             raw    |-> RawConfig(file # "unreadable", file # "bad-toml", Schema1, pf, hk, check),
             opts   |-> [InstallAt |-> installAt, SkipStandalone |-> skip],
             oracle |-> oracle,
             fs     |-> fs] :
              repo \in {"abs-error", "not-git", "git"}, file \in FileStates,
              hk \in PairHooks, check \in {<<>>, Cmd}, skip \in BOOLEAN,
              installAt \in {<<>>, InstallDir}, fs \in PairTrees, oracle \in RunOracles(pf)} :
           pf \in SeqsUpTo({R_file}, MaxRunEntries)}

InitPair ==
    /\ vA = NoVerdict
    /\ vB = NoVerdict
    /\ IdleCity /\ IdleMatch /\ IdleKind /\ IdleRecord

FirstRun ==
    /\ vA = NoVerdict
    /\ \E in \in PairInputs, world \in PossibleWorlds : vA' = Run(in, world)
    /\ UNCHANGED <<vB, cityVars, matchVars, kindVars, recordVars>>

SecondRun ==
    /\ vA # NoVerdict
    /\ vB = NoVerdict
    /\ \E in \in PairInputs, world \in PossibleWorlds : vB' = Run(in, world)
    /\ UNCHANGED <<vA, cityVars, matchVars, kindVars, recordVars>>

NextPair == FirstRun \/ SecondRun

SpecPair == InitPair /\ [][NextPair]_vars

BothReturned == vA # NoVerdict /\ vB # NoVerdict

\* C25: two verdicts returned by Run, the invalid ones included, that have equal
\* Summary counts (pass, fail, skip) have equal exit codes.
C25_ExitCodeFromSummary ==
    (BothReturned /\ vA.Summary = vB.Summary) => vA.ExitCode = vB.ExitCode

\* the same counts from different checks: the standalone check skipped in one run,
\* the split check in the other
C25_Witness ==
    /\ BothReturned
    /\ vA.Summary = [Pass |-> 3, Fail |-> 0, Skip |-> 1]
    /\ vB.Summary = vA.Summary
    /\ vA.Checks[2].Status = StatusSkip
    /\ vB.Checks[4].Status = StatusSkip
    /\ vA.ExitCode = ExitWarn /\ vB.ExitCode = ExitWarn

\* Run returned on a valid contract that declares no polis_files and no hooks, and no
\* install location was given
NothingDeclared ==
    /\ RunDone /\ ValidInput
    /\ rIn.raw.polis_files = <<>>
    /\ rIn.raw.hook = <<>>
    /\ rIn.opts.InstallAt = <<>>

\* C26 (as stated): with empty polis_files, no hooks and no install location the boundary
\* check is pass, the hooks check is pass, the split check is skip and the overall status
\* is warn.
C26_EmptyContractWarns ==
    NothingDeclared =>
        /\ CheckNamed("boundary").Status = StatusPass
        /\ CheckNamed("config-hooks").Status = StatusPass
        /\ CheckNamed("split").Status = StatusSkip
        /\ rVerdict.Status = "warn"

\* C26 (amended): with empty polis_files, no hooks and no install location the boundary
\* check is pass, the hooks check is pass and the split check is skip; the overall status
\* is fail when the standalone check fails and warn otherwise.
C26_EmptyContractWarnsUnlessStandaloneFails ==
    NothingDeclared =>
        /\ CheckNamed("boundary").Status = StatusPass
        /\ CheckNamed("config-hooks").Status = StatusPass
        /\ CheckNamed("split").Status = StatusSkip
        /\ rVerdict.Status = (IF CheckNamed("standalone").Status = StatusFail THEN "fail" ELSE "warn")

\* nothing declared, the self-check command ran and passed: warn
C26_Witness ==
    /\ NothingDeclared
    /\ rIn.raw.standalone_check = Cmd /\ ~rIn.opts.SkipStandalone
    /\ CheckNamed("standalone").Status = StatusPass
    /\ CheckNamed("split").Status = StatusSkip
    /\ rVerdict.Status = "warn" /\ rVerdict.ExitCode = ExitWarn

(***************************************************************************)
(* Specification SpecKind: one declared entry of a loaded contract as the  *)
(* boundary check turns it into its probe path and as the split check      *)
(* looks for it below an install location.                                 *)
(***************************************************************************)
E_classDir == <<"[", "a", "d", "]", "/">>
E_question == <<"?">>

KindEntries == Entries \cup {E_classDir, E_question}

InitKind ==
    /\ gEntry \in KindEntries
    /\ gFs \in FileTrees
    /\ gOut = [probe |-> Pending, split |-> Pending]
    /\ IdleCity /\ IdleMatch /\ IdlePair /\ IdleRecord

\* "candidate := ignoreCandidate(entry)" of checkBoundary
ProbeEntry ==
    /\ gOut.probe = Pending
    /\ gOut' = [gOut EXCEPT !.probe = ignoreCandidate(gEntry)]
    /\ UNCHANGED <<gEntry, gFs, cityVars, matchVars, pairVars, recordVars>>

\* checkSplit on the same entry
SplitEntry ==
    /\ gOut.probe # Pending
    /\ gOut.split = Pending
    /\ gOut' = [gOut EXCEPT !.split = checkSplit(<<gEntry>>, InstallDir, gFs)]
    /\ UNCHANGED <<gEntry, gFs, cityVars, matchVars, pairVars, recordVars>>

NextKind == ProbeEntry \/ SplitEntry

SpecKind == InitKind /\ [][NextKind]_vars

KindDone == gOut # Pending /\ gOut.probe # Pending /\ gOut.split # Pending

\* C27: both checkers give an entry the same kind.  An entry holding "*", "?" or "[" is a
\* glob for both, also when it ends in "/": its probe is the path synthesized from it and
\* the split check looks for a walked path that matches it.  Otherwise an entry ending in
\* "/" is a directory for both: its probe is a sample path inside it and the split check
\* wants a directory.  Otherwise it is a file for both: its probe is the entry itself and
\* the split check wants a regular file.
C27_SameKindInBothCheckers ==
    KindDone =>
        /\ IsGlobEntry(gEntry) =>
              /\ gOut.probe = synthesizePathFromPattern(gEntry)
              /\ ~hasGlobMeta(gOut.probe)
              /\ gOut.split.status = StatusPass <=>
                    \E k \in 1..Len(WalkOrder) :
                        /\ ExistsAt(gFs, WalkOrder[k])
                        /\ matchGlobPattern(gEntry, WalkOrder[k])
                        /\ \A j \in 1..(k - 1) : gFs.obj[WalkOrder[j]] # "unreadable-dir"
        /\ IsDirEntry(gEntry) =>
              /\ gOut.probe = PathJoin(TrimSuffix(gEntry, <<"/">>), GateCitySample)
              /\ gOut.split.status = StatusPass <=>
                    Lstat(gFs, TrimSuffix(gEntry, <<"/">>)) \in {"dir", "unreadable-dir"}
        /\ IsFileEntry(gEntry) =>
              /\ gOut.probe = gEntry
              /\ gOut.split.status = StatusPass <=> Lstat(gFs, gEntry) = "file"

\* the glob "*/": no object is named "*", a regular file matches it, and the probe is
\* the synthesized path sample/sample
C27_Witness ==
    /\ KindDone
    /\ gEntry = E_globDir
    /\ gFs.rootExists /\ gFs.obj[P_a] = "file" /\ gFs.obj[P_d] = "absent"
    /\ gOut.probe = <<"s", "a", "m", "p", "l", "e", "/", "s", "a", "m", "p", "l", "e">>
    /\ gOut.split.status = StatusPass

\* C28 (as stated): Run returns the invalid verdict (exit code 3) only when loadConfig
\* fails; no other step of Run produces it.
C28_InvalidOnlyFromLoader ==
    (RunDone /\ rVerdict.ExitCode = ExitInvalid) =>
        /\ rIn.repo = "git"
        /\ ContractInvalid

\* C28 (amended): Run returns the invalid verdict only when the repository path cannot be
\* made absolute, the repository is not a git work tree, or loadConfig fails; none of the
\* four checks produces it, and in each of these three cases it is returned.
C28_InvalidOnlyBeforeTheChecks ==
    RunDone =>
        /\ rVerdict.ExitCode = ExitInvalid <=>
              \/ rIn.repo = "abs-error"
              \/ rIn.repo = "not-git"
              \/ ContractInvalid
        /\ rVerdict.ExitCode = ExitInvalid => rResults = <<>>

\* the invalid verdict for a directory that is not a git work tree, city.toml never read
C28_Witness ==
    /\ RunDone
    /\ rIn.repo = "not-git"
    /\ rVerdict.ExitCode = ExitInvalid
    /\ rVerdict.Checks[1].Detail.msg = "invalid repo input"
    /\ "os.ReadFile" \notin rEffects

\* C30: in every verdict returned by Run, Pass is true exactly when Status is pass and
\* exactly when ExitCode is 0; every check status is pass, fail or skip, and the three
\* Summary counts add up to the number of check results.
C30_VerdictFieldsAgree ==
    RunDone =>
        /\ rVerdict.Pass <=> rVerdict.Status = "pass"
        /\ rVerdict.Pass <=> rVerdict.ExitCode = 0
        /\ \A i \in 1..Len(rVerdict.Checks) :
              rVerdict.Checks[i].Status \in {StatusPass, StatusFail, StatusSkip}
        /\ rVerdict.Summary.Pass + rVerdict.Summary.Fail + rVerdict.Summary.Skip = Len(rVerdict.Checks)
        /\ rVerdict.Summary.Pass = Cardinality({i \in 1..Len(rVerdict.Checks) : rVerdict.Checks[i].Status = StatusPass})
        /\ rVerdict.Summary.Fail = Cardinality({i \in 1..Len(rVerdict.Checks) : rVerdict.Checks[i].Status = StatusFail})

\* four checks passed: Pass, status pass, exit code 0, Summary 4/0/0
C30_Witness ==
    /\ RunDone
    /\ rVerdict.Pass
    /\ rVerdict.Status = "pass"
    /\ rVerdict.ExitCode = 0
    /\ Len(rVerdict.Checks) = 4
    /\ rVerdict.Summary = [Pass |-> 4, Fail |-> 0, Skip |-> 0]

(***************************************************************************)
(* Specification SpecRecord: sequential calls of RecordCity (package bead) *)
(* against one ledger.  A bead is held with the labels that the search of  *)
(* findOpenFailBead filters on (repo:, kind:city, status:fail) and whether *)
(* it is open; its id is its position in the ledger.  Every br command may *)
(* fail: runCmd then returns an error.  kCall.clean records that no search *)
(* has failed so far.                                                      *)
(***************************************************************************)
MaxBeads == 3        \* most beads in the ledger

Repos == {"r1", "r2"}
VerdictStatuses == {"pass", "warn", "fail"}

\* a bead made by createWithBR for a city verdict / by Record for a check verdict
CityFailBead(repo)  == [repo |-> repo, kind |-> "city", open |-> TRUE]
CheckFailBead(repo) == [repo |-> repo, kind |-> "check", open |-> TRUE]

\* br search gate --label tool:gate --label repo:R --label status:fail --status open --label kind:city
brSearch(ledger, repo) ==
    {i \in 1..Len(ledger) : ledger[i].repo = repo /\ ledger[i].kind = "city" /\ ledger[i].open}

parseFirstBeadID(ids) ==
    IF ids = {} THEN NoBead ELSE CHOOSE i \in ids : \A j \in ids : i <= j

findOpenFailBead(ledger, repo, env) ==
    IF ~env.searchOk THEN NoBead
    ELSE parseFirstBeadID(brSearch(ledger, repo))

\* the ledger after "br close id", whose error resolveOpenFailBead does not look at
brClose(ledger, id, env) ==
    IF id = NoBead \/ ~env.closeOk THEN ledger ELSE [ledger EXCEPT ![id].open = FALSE]

resolveOpenFailBead(ledger, repo, env) ==
    brClose(ledger, findOpenFailBead(ledger, repo, env), env)

createWithBR(ledger, repo, env) ==
    IF ~env.brFound THEN [ledger |-> ledger, ret |-> NoBead]
    ELSE IF ~env.createOk THEN [ledger |-> ledger, ret |-> NoBead]
    ELSE [ledger |-> Append(ledger, CityFailBead(repo)), ret |-> Len(ledger) + 1]

\* the fail branch of RecordCity, existing the result of findOpenFailBead
recordFail(ledger, repo, env, existing) ==
    IF existing # NoBead THEN [ledger |-> ledger, ret |-> existing]
    ELSE createWithBR(ledger, repo, env)

\* RecordCity creating a bead for every verdict, without search
RecordCityNoDedup(ledger, repo, status, env) ==
    IF status # "fail" THEN [ledger |-> ledger, ret |-> NoBead]
    ELSE createWithBR(ledger, repo, env)

RecordCity(ledger, repo, status, env) ==
    IF ~env.brFound THEN [ledger |-> ledger, ret |-> NoBead]
    ELSE IF status # "fail" THEN [ledger |-> resolveOpenFailBead(ledger, repo, env), ret |-> NoBead]
    ELSE recordFail(ledger, repo, env, findOpenFailBead(ledger, repo, env))

\* the br commands a call runs: the search, then close or create
RunsSearch(status, env) == env.brFound
RunsClose(ledger, repo, status, env) ==
    env.brFound /\ status # "fail" /\ env.searchOk /\ brSearch(ledger, repo) # {}
RunsCreate(ledger, repo, status, env) ==
    env.brFound /\ status = "fail" /\ (~env.searchOk \/ brSearch(ledger, repo) = {})

BrOutcomes == [brFound : BOOLEAN, searchOk : BOOLEAN, closeOk : BOOLEAN, createOk : BOOLEAN]

InitRecord ==
    /\ kLedger \in {<<>>, <<CheckFailBead("r1")>>}
    /\ kCall = NoCall
    /\ kRet = NoBead
    /\ IdleCity /\ IdleMatch /\ IdleKind /\ IdlePair

RecordCityCall ==
    \E repo \in Repos, status \in VerdictStatuses, env \in BrOutcomes :
        /\ RunsCreate(kLedger, repo, status, env) => Len(kLedger) < MaxBeads
        \* a command that is not run has no outcome
        /\ ~RunsSearch(status, env) => env.searchOk
        /\ ~RunsClose(kLedger, repo, status, env) => env.closeOk
        /\ ~RunsCreate(kLedger, repo, status, env) => env.createOk
        /\ kLedger' = RecordCity(kLedger, repo, status, env).ledger
        /\ kRet' = RecordCity(kLedger, repo, status, env).ret
        /\ kCall' = [made |-> TRUE, repo |-> repo, status |-> status, env |-> env, before |-> kLedger,
                     clean |-> kCall.clean /\ env.searchOk]
        /\ UNCHANGED <<cityVars, matchVars, kindVars, pairVars>>

NextRecord == RecordCityCall

SpecRecord == InitRecord /\ [][NextRecord]_vars

Called == kCall.made

\* the open fail beads of city verdicts for one repo
OpenCityFail(ledger, repo) == {i \in 1..Len(ledger) : ledger[i] = CityFailBead(repo)}

FirstOpenCityFail(ledger, repo) ==
    CHOOSE i \in OpenCityFail(ledger, repo) : \A j \in OpenCityFail(ledger, repo) : i <= j

\* the search of the last call found an open fail bead of its repo
SearchFound == kCall.env.searchOk /\ OpenCityFail(kCall.before, kCall.repo) # {}

AtMostOneOpenFailBead == \A repo \in Repos : Cardinality(OpenCityFail(kLedger, repo)) <= 1

====
